---------------------------- MODULE Spec2Model ----------------------------
(***************************************************************************)
(* Model of the Swiss legal assessment server (server/src/index.ts):       *)
(* the password middleware and the three API routes as a state machine,    *)
(* and the text functions (extractLegalReferences, cleanMarkdown,          *)
(* parseResponse, retrieveDsgContext, createPrompt) as operators over      *)
(* character sequences, each applied to its inputs by a specification of   *)
(* its own; and of the browser client: the Login page and the Dashboard    *)
(* with the password they keep in localStorage, and the TextWithCitations  *)
(* component that renders a text with its citations as links.              *)
(*                                                                         *)
(* A JavaScript string is a sequence of characters; a character is a       *)
(* one-character TLA+ string, except for the non-ASCII characters the      *)
(* inputs use (auml, ouml, uuml, szlig, ndash, bullet), the backtick and   *)
(* the line break NL.                                                      *)
(***************************************************************************)
EXTENDS Naturals, Sequences, FiniteSets

VARIABLES
  text,        \* extractLegalReferences: its argument
  refs,        \* extractLegalReferences: its result
  xpc,         \* "call" before extractLegalReferences ran, "done" after
  response,    \* parseResponse: its argument (the model's reply)
  parsed,      \* parseResponse: its result
  ppc,         \* "call" before parseResponse ran, "done" after
  req,         \* the requests the server handles, by request id
  apiKeySet,   \* OPENROUTER_API_KEY is configured
  production,  \* NODE_ENV === 'production'
  registry,    \* SWISS_LAW_URLS, as the server holds it
  articles,    \* DSG_ARTICLES, as the server holds it
  query,       \* retrieveDsgContext: its first argument
  limit,       \* retrieveDsgContext: its second argument, or undefined
  context,     \* retrieveDsgContext: its result
  rpc,         \* "call" before retrieveDsgContext ran, "done" after
  userText,    \* createPrompt: its first argument
  dsgContext,  \* createPrompt: its second argument
  prompt,      \* createPrompt: its result
  cpc,         \* "call" before createPrompt ran, "done" after
  mdText,      \* a text with markdown
  cleaned,     \* cleanMarkdown(mdText)
  rawRefs,     \* extractLegalReferences(mdText)
  cleanRefs,   \* extractLegalReferences(cleaned)
  mpc,         \* "call", then "cleaned", then "done"
  client,      \* the client in the browser: page, localStorage, requests
  render       \* TextWithCitations: its arguments and its result

refVars == <<text, refs, xpc>>
parseVars == <<response, parsed, ppc>>
envVars == <<apiKeySet, production, registry>>
retrieveVars == <<query, limit, context, rpc>>
promptVars == <<userText, dsgContext, prompt, cpc>>
cleanVars == <<mdText, cleaned, rawRefs, cleanRefs, mpc>>

vars ==
  <<refVars, parseVars, req, envVars, articles, retrieveVars, promptVars,
    cleanVars, client, render>>

\* the parts of the state a specification does not use
RefsIdle == text = <<>> /\ refs = <<>> /\ xpc = "idle"
ParseIdle == response = <<>> /\ parsed = <<>> /\ ppc = "idle"
ServerIdle ==
  /\ req = <<>>
  /\ apiKeySet = FALSE
  /\ production = FALSE
  /\ registry = <<>>
RetrieveIdle == query = <<>> /\ limit = <<>> /\ context = <<>> /\ rpc = "idle"
PromptIdle ==
  userText = <<>> /\ dsgContext = <<>> /\ prompt = <<>> /\ cpc = "idle"
ClientIdle == client = <<>>
RenderIdle == render = <<>>
CleanIdle ==
  /\ mdText = <<>>
  /\ cleaned = <<>>
  /\ rawRefs = <<>>
  /\ cleanRefs = <<>>
  /\ mpc = "idle"

---------------------------------------------------------------------------
(* Characters *)

NL == "\n"
uuml == "<ue>"
UUML == "<UE>"
bullet == "<bullet>"
backtick == "<backtick>"
auml == "<ae>"
ouml == "<oe>"
szlig == "<ss>"
ndash == "<ndash>"

LowerLetters ==
  <<"a", "b", "c", "d", "e", "f", "g", "h", "i", "j", "k", "l", "m",
    "n", "o", "p", "q", "r", "s", "t", "u", "v", "w", "x", "y", "z", uuml>>
UpperLetters ==
  <<"A", "B", "C", "D", "E", "F", "G", "H", "I", "J", "K", "L", "M",
    "N", "O", "P", "Q", "R", "S", "T", "U", "V", "W", "X", "Y", "Z", UUML>>

AsciiLower == {LowerLetters[k] : k \in 1..26}
AsciiUpper == {UpperLetters[k] : k \in 1..26}
Digits == {"0", "1", "2", "3", "4", "5", "6", "7", "8", "9"}

UpperOf == [c \in {LowerLetters[k] : k \in 1..27} |->
              UpperLetters[CHOOSE k \in 1..27 : LowerLetters[k] = c]]

\* String.prototype.toUpperCase, one character
ToUpperChar(c) == IF c \in DOMAIN UpperOf THEN UpperOf[c] ELSE c

\* String.prototype.toUpperCase
toUpperCase(s) == [k \in 1..Len(s) |-> ToUpperChar(s[k])]

\* \d
IsDigit(c) == c \in Digits
\* [a-zA-Z], which is also [a-z] under the i flag
IsLetter(c) == c \in AsciiLower \cup AsciiUpper
\* \s
IsSpace(c) == c \in {" ", NL}

\* a literal of a pattern with the i flag, tried at position i of t
MatchCI(t, i, lit) ==
  /\ i >= 1
  /\ i + Len(lit) - 1 <= Len(t)
  /\ \A k \in 1..Len(lit) : ToUpperChar(t[i + k - 1]) = ToUpperChar(lit[k])

\* a literal of a pattern without the i flag
MatchCS(t, i, lit) ==
  /\ i >= 1
  /\ i + Len(lit) - 1 <= Len(t)
  /\ \A k \in 1..Len(lit) : t[i + k - 1] = lit[k]

RECURSIVE SkipWs(_, _)
\* \s* (greedy): the first position at or after i that holds no white space
SkipWs(t, i) == IF i <= Len(t) /\ IsSpace(t[i]) THEN SkipWs(t, i + 1) ELSE i

RECURSIVE SkipDigits(_, _)
\* \d* (greedy): the first position at or after i that holds no digit
SkipDigits(t, i) == IF i <= Len(t) /\ IsDigit(t[i]) THEN SkipDigits(t, i + 1) ELSE i

\* an optional value: undefined, or a defined value
Undefined == <<>>
Some(v) == <<v>>
IsDefined(o) == o # Undefined
Val(o) == o[1]

RECURSIVE Flatten(_)
\* the concatenation of a sequence of strings
Flatten(ss) == IF ss = <<>> THEN <<>> ELSE Head(ss) \o Flatten(Tail(ss))

\* all sequences over S of length at most n
SeqsUpTo(S, n) == UNION {[1..k -> S] : k \in 0..n}

---------------------------------------------------------------------------
(* Law URL registry and citation extraction *)

\* "Art."
S_Art == <<"A", "r", "t", ".">>
\* "Abs."
S_Abs == <<"A", "b", "s", ".">>
\* "#art_"
S_anchor == <<"#", "a", "r", "t", "_">>
\* "DSG"
S_DSG == <<"D", "S", "G">>
\* "Datenschutzgesetz"
S_Datenschutzgesetz ==
  <<"D", "a", "t", "e", "n", "s", "c", "h", "u", "t", "z", "g", "e", "s", "e", "t", "z">>
\* "ZGB"
S_ZGB == <<"Z", "G", "B">>
\* "Zivilgesetzbuch"
S_Zivilgesetzbuch ==
  <<"Z", "i", "v", "i", "l", "g", "e", "s", "e", "t", "z", "b", "u", "c", "h">>
\* "OR"
S_OR == <<"O", "R">>
\* "Obligationenrecht"
S_Obligationenrecht ==
  <<"O", "b", "l", "i", "g", "a", "t", "i", "o", "n", "e", "n", "r", "e", "c", "h", "t">>
\* "BV"
S_BV == <<"B", "V">>
\* "Bundesverfassung"
S_Bundesverfassung ==
  <<"B", "u", "n", "d", "e", "s", "v", "e", "r", "f", "a", "s", "s", "u", "n", "g">>
\* "StGB"
S_StGB == <<"S", "t", "G", "B">>
\* "Strafgesetzbuch"
S_Strafgesetzbuch ==
  <<"S", "t", "r", "a", "f", "g", "e", "s", "e", "t", "z", "b", "u", "c", "h">>
\* "SR 101", "SR 210", "SR 220", "SR 235.1", "SR 311.0", "DSG 2023"
S_SR101 == <<"S", "R", " ", "1", "0", "1">>
S_SR210 == <<"S", "R", " ", "2", "1", "0">>
S_SR220 == <<"S", "R", " ", "2", "2", "0">>
S_SR2351 == <<"S", "R", " ", "2", "3", "5", ".", "1">>
S_SR3110 == <<"S", "R", " ", "3", "1", "1", ".", "0">>
S_DSG2023 == <<"D", "S", "G", " ", "2", "0", "2", "3">>

URL_BV == "https://www.fedlex.admin.ch/eli/cc/1999/404/de"
URL_ZGB == "https://www.fedlex.admin.ch/eli/cc/24/233_245_233/de"
URL_OR == "https://www.fedlex.admin.ch/eli/cc/27/317_321_377/de"
URL_DSG == "https://www.fedlex.admin.ch/eli/cc/2022/491/de"
URL_StGB == "https://www.fedlex.admin.ch/eli/cc/54/757_781_799/de"

\* the registry: its keys with their base URLs (a base URL is one unit of a
\* url string)
SWISS_LAW_URLS ==
  << <<S_BV, URL_BV>>, <<S_Bundesverfassung, URL_BV>>, <<S_SR101, URL_BV>>,
     <<S_ZGB, URL_ZGB>>, <<S_Zivilgesetzbuch, URL_ZGB>>, <<S_SR210, URL_ZGB>>,
     <<S_OR, URL_OR>>, <<S_Obligationenrecht, URL_OR>>, <<S_SR220, URL_OR>>,
     <<S_DSG, URL_DSG>>, <<S_Datenschutzgesetz, URL_DSG>>,
     <<S_DSG2023, URL_DSG>>, <<S_SR2351, URL_DSG>>,
     <<S_StGB, URL_StGB>>, <<S_Strafgesetzbuch, URL_StGB>>, <<S_SR3110, URL_StGB>> >>

RegistryKeys == {SWISS_LAW_URLS[k][1] : k \in DOMAIN SWISS_LAW_URLS}

\* SWISS_LAW_URLS[key]: the base URL, or undefined
RegistryGet(key) ==
  IF key \in RegistryKeys
    THEN Some(SWISS_LAW_URLS[CHOOSE k \in DOMAIN SWISS_LAW_URLS :
                               SWISS_LAW_URLS[k][1] = key][2])
    ELSE Undefined
\* SWISS_LAW_URLS[lawAbbr] || SWISS_LAW_URLS[lawAbbr.toUpperCase()]
LookupBaseUrl(lawAbbr) ==
  IF IsDefined(RegistryGet(lawAbbr))
    THEN RegistryGet(lawAbbr)
    ELSE RegistryGet(toUpperCase(lawAbbr))

\* the five citation grammars, by the alternatives of their law group
patterns ==
  << <<S_DSG, S_Datenschutzgesetz>>,
     <<S_ZGB, S_Zivilgesetzbuch>>,
     <<S_OR, S_Obligationenrecht>>,
     <<S_BV, S_Bundesverfassung>>,
     <<S_StGB, S_Strafgesetzbuch>> >>

NoMatch == [end |-> 0]

\* (DSG|Datenschutzgesetz) at position p: the first alternative that matches
LawAt(t, p, alts) ==
  IF MatchCI(t, p, alts[1]) THEN p + Len(alts[1])
  ELSE IF MatchCI(t, p, alts[2]) THEN p + Len(alts[2])
  ELSE 0

\* \s*(?:Abs\.\s*(\d+))?\s*(LAW) from position p: the optional group is tried
\* first, and given up when the rest does not match with it
CitationTail(t, p, alts) ==
  LET b1 == SkipWs(t, p)
      c1 == SkipWs(t, b1 + Len(S_Abs))
      c2 == SkipDigits(t, c1)
      c3 == SkipWs(t, c2)
      withAbs == MatchCI(t, b1, S_Abs) /\ c2 > c1 /\ LawAt(t, c3, alts) # 0
  IN  IF withAbs
        THEN [end |-> LawAt(t, c3, alts),
              paragraph |-> Some(SubSeq(t, c1, c2 - 1)),
              law |-> SubSeq(t, c3, LawAt(t, c3, alts) - 1)]
      ELSE IF LawAt(t, b1, alts) # 0
        THEN [end |-> LawAt(t, b1, alts),
              paragraph |-> Undefined,
              law |-> SubSeq(t, b1, LawAt(t, b1, alts) - 1)]
      ELSE NoMatch

\* /Art\.\s*(\d+[a-z]?)\s*(?:Abs\.\s*(\d+))?\s*(LAW)/i tried at position i:
\* the match (end: the position after it), or NoMatch.  \s* and \d+ take all
\* they can (nothing after them matches what they give back); [a-z]? takes a
\* letter first and gives it back when the rest does not match with it.
CitationAt(t, i, alts) ==
  LET a1 == SkipWs(t, i + Len(S_Art))
      a2 == SkipDigits(t, a1)
      letter == a2 <= Len(t) /\ IsLetter(t[a2])
      long == IF letter THEN CitationTail(t, a2 + 1, alts) ELSE NoMatch
      short == CitationTail(t, a2, alts)
      fin(m, artEnd) ==
        [end |-> m.end,
         article |-> SubSeq(t, a1, artEnd - 1),
         paragraph |-> m.paragraph,
         law |-> m.law,
         text |-> SubSeq(t, i, m.end - 1)]
  IN  IF ~(MatchCI(t, i, S_Art) /\ a2 > a1) THEN NoMatch
      ELSE IF long.end # 0 THEN fin(long, a2 + 1)
      ELSE IF short.end # 0 THEN fin(short, a2)
      ELSE NoMatch

RECURSIVE ExecAll(_, _, _)
\* while ((match = pattern.exec(text)) !== null): the matches of one grammar
\* from position i on, leftmost first, each search starting where the last
\* match ended
ExecAll(t, i, alts) ==
  IF i > Len(t) THEN <<>>
  ELSE LET m == CitationAt(t, i, alts)
       IN  IF m.end # 0
             THEN <<m>> \o ExecAll(t, m.end, alts)
             ELSE ExecAll(t, i + 1, alts)

\* a url without the article's anchor
ReferenceUrl_Base(baseUrl, article) == <<baseUrl>>

\* const url = article ? `${baseUrl}#art_${article}` : baseUrl
ReferenceUrl(baseUrl, article) ==
  IF article # <<>> THEN <<baseUrl>> \o S_anchor \o article ELSE <<baseUrl>>

\* a push that does not test baseUrl
PushReference_Unresolved(m) ==
  << [law |-> m.law,
      article |-> m.article,
      paragraph |-> m.paragraph,
      text |-> m.text,
      url |-> IF IsDefined(LookupBaseUrl(m.law))
                THEN ReferenceUrl(Val(LookupBaseUrl(m.law)), m.article)
                ELSE <<>>] >>

\* a push whose anchor is the paragraph when the citation names one
PushReference_Paragraph(m) ==
  IF IsDefined(LookupBaseUrl(m.law))
    THEN << [law |-> m.law,
             article |-> m.article,
             paragraph |-> m.paragraph,
             text |-> m.text,
             url |-> ReferenceUrl(Val(LookupBaseUrl(m.law)),
                                  IF IsDefined(m.paragraph)
                                    THEN Val(m.paragraph) ELSE m.article)] >>
    ELSE <<>>

\* if (baseUrl) references.push({law, article, paragraph, text, url})
PushReference(m) ==
  IF IsDefined(LookupBaseUrl(m.law))
    THEN << [law |-> m.law,
             article |-> m.article,
             paragraph |-> m.paragraph,
             text |-> m.text,
             url |-> ReferenceUrl(Val(LookupBaseUrl(m.law)), m.article)] >>
    ELSE <<>>

RECURSIVE PushAll(_)
PushAll(ms) == IF ms = <<>> THEN <<>> ELSE PushReference(Head(ms)) \o PushAll(Tail(ms))

\* the grammars taken in the opposite order
AllReferences_Reversed(t) ==
  Flatten([g \in 1..Len(patterns) |->
             PushAll(ExecAll(t, 1, patterns[Len(patterns) + 1 - g]))])

\* patterns.forEach(...): the references of every grammar, grammar by grammar
AllReferences(t) ==
  Flatten([g \in 1..Len(patterns) |-> PushAll(ExecAll(t, 1, patterns[g]))])

\* self.findIndex((r) => r.text === ref.text)
FindIndexByText(self, ref) ==
  CHOOSE j \in 1..Len(self) :
    /\ self[j].text = ref.text
    /\ \A l \in 1..(j - 1) : self[l].text # ref.text

\* no filter
uniqueRefs_Keep(references) == references

\* references.filter((ref, index, self) => index === self.findIndex(...))
uniqueRefs(references) ==
  LET keep(index) == index = FindIndexByText(references, references[index])
      kept == {k \in 1..Len(references) : keep(k)}
      RECURSIVE pick(_)
      pick(k) == IF k > Len(references) THEN <<>>
                 ELSE (IF k \in kept THEN <<references[k]>> ELSE <<>>) \o pick(k + 1)
  IN  pick(1)

extractLegalReferences(t) == uniqueRefs(AllReferences(t))
---------------------------------------------------------------------------
(* cleanMarkdown *)

RECURSIVE IndexOfChar(_, _, _)
\* the first position at or after i that holds c, or Len(t) + 1
IndexOfChar(t, i, c) ==
  IF i > Len(t) \/ t[i] = c THEN i ELSE IndexOfChar(t, i + 1, c)

RECURSIVE IndexOfLit(_, _, _)
\* the first position at or after i where lit stands, or 0
IndexOfLit(t, i, lit) ==
  IF i + Len(lit) - 1 > Len(t) THEN 0
  ELSE IF MatchCS(t, i, lit) THEN i
  ELSE IndexOfLit(t, i + 1, lit)

RECURSIVE ReplaceWrapped(_, _, _, _)
\* t.replace(/D([^c]+)D/g, '$1') from position i on, for the marker D (made of
\* the character c): [^c]+ runs to the next c, where the closing D must stand
ReplaceWrapped(t, i, D, c) ==
  IF i > Len(t) THEN <<>>
  ELSE LET from == i + Len(D)
           to == IndexOfChar(t, from, c)
       IN  IF MatchCS(t, i, D) /\ to > from /\ MatchCS(t, to, D)
             THEN SubSeq(t, from, to - 1) \o ReplaceWrapped(t, to + Len(D), D, c)
             ELSE <<t[i]>> \o ReplaceWrapped(t, i + 1, D, c)

S_fence == <<backtick, backtick, backtick>>

RECURSIVE RemoveCodeBlocks(_, _)
\* t.replace(/```[\s\S]*?```/g, '') from position i on
RemoveCodeBlocks(t, i) ==
  IF i > Len(t) THEN <<>>
  ELSE LET close == IndexOfLit(t, i + Len(S_fence), S_fence)
       IN  IF MatchCS(t, i, S_fence) /\ close # 0
             THEN RemoveCodeBlocks(t, close + Len(S_fence))
             ELSE <<t[i]>> \o RemoveCodeBlocks(t, i + 1)

\* the most # of a header marker: #{1,6}
MaxHeaderLevel == 6

RECURSIVE RemoveHeaders(_, _)
\* t.replace(/^#{1,6}\s+/gm, '') from position i on: at the start of a line,
\* one to six # followed by white space
RemoveHeaders(t, i) ==
  IF i > Len(t) THEN <<>>
  ELSE LET lineStart == i = 1 \/ t[i - 1] = NL
           afterHashes == CHOOSE j \in i..(Len(t) + 1) :
                            /\ \A k \in i..(j - 1) : t[k] = "#"
                            /\ j > Len(t) \/ t[j] # "#"
           afterWs == SkipWs(t, afterHashes)
       IN  IF /\ lineStart
              /\ afterHashes > i
              /\ afterHashes - i <= MaxHeaderLevel
              /\ afterWs > afterHashes
             THEN RemoveHeaders(t, afterWs)
             ELSE <<t[i]>> \o RemoveHeaders(t, i + 1)

RECURSIVE CollapseNewlines(_, _)
\* t.replace(/\n{3,}/g, '\n\n') from position i on
CollapseNewlines(t, i) ==
  IF i > Len(t) THEN <<>>
  ELSE LET j == CHOOSE j \in i..(Len(t) + 1) :
                  /\ \A k \in i..(j - 1) : t[k] = NL
                  /\ j > Len(t) \/ t[j] # NL
       IN  IF j - i >= 3
             THEN <<NL, NL>> \o CollapseNewlines(t, j)
             ELSE <<t[i]>> \o CollapseNewlines(t, i + 1)

\* String.prototype.trim
trim(t) ==
  LET first == SkipWs(t, 1)
      last == CHOOSE j \in 0..Len(t) :
                /\ \A k \in (j + 1)..Len(t) : IsSpace(t[k])
                /\ j = 0 \/ ~IsSpace(t[j])
  IN  IF first > Len(t) THEN <<>> ELSE SubSeq(t, first, last)

cleanMarkdown(t) ==
  IF t = <<>> THEN t
  ELSE LET bold == ReplaceWrapped(t, 1, <<"*", "*">>, "*")
           italic == ReplaceWrapped(bold, 1, <<"*">>, "*")
           under == ReplaceWrapped(italic, 1, <<"_">>, "_")
           blocks == RemoveCodeBlocks(under, 1)
           code == ReplaceWrapped(blocks, 1, <<backtick>>, backtick)
           headers == RemoveHeaders(code, 1)
           lines == CollapseNewlines(headers, 1)
       IN  trim(lines)

---------------------------------------------------------------------------
(* parseResponse *)

\* "SUMMARY"
S_SUMMARY == <<"S", "U", "M", "M", "A", "R", "Y">>
\* "ZUSAMMENFASSUNG"
S_ZUSAMMENFASSUNG ==
  <<"Z", "U", "S", "A", "M", "M", "E", "N", "F", "A", "S", "S", "U", "N",
    "G">>
\* "BESCHREIBUNG"
S_BESCHREIBUNG ==
  <<"B", "E", "S", "C", "H", "R", "E", "I", "B", "U", "N", "G">>
\* "DESCRIPTION"
S_DESCRIPTION == <<"D", "E", "S", "C", "R", "I", "P", "T", "I", "O", "N">>
\* "BRUTTORISIKEN"
S_BRUTTORISIKEN ==
  <<"B", "R", "U", "T", "T", "O", "R", "I", "S", "I", "K", "E", "N">>
\* "RISK_LEVEL"
S_RISK_LEVEL == <<"R", "I", "S", "K", "_", "L", "E", "V", "E", "L">>
\* "POTENTIELL"
S_POTENTIELL == <<"P", "O", "T", "E", "N", "T", "I", "E", "L", "L">>
\* "MASSNAHMEN"
S_MASSNAHMEN == <<"M", "A", "S", "S", "N", "A", "H", "M", "E", "N">>
\* "GEPLANTE"
S_GEPLANTE == <<"G", "E", "P", "L", "A", "N", "T", "E">>
\* "NETTORISIKEN"
S_NETTORISIKEN ==
  <<"N", "E", "T", "T", "O", "R", "I", "S", "I", "K", "E", "N">>
\* "VERBLEIBENDE"
S_VERBLEIBENDE ==
  <<"V", "E", "R", "B", "L", "E", "I", "B", "E", "N", "D", "E">>
\* "ERGEBNIS"
S_ERGEBNIS == <<"E", "R", "G", "E", "B", "N", "I", "S">>
\* "EMPFEHLUNGEN"
S_EMPFEHLUNGEN ==
  <<"E", "M", "P", "F", "E", "H", "L", "U", "N", "G", "E", "N">>
\* "RECOMMENDATIONS"
S_RECOMMENDATIONS ==
  <<"R", "E", "C", "O", "M", "M", "E", "N", "D", "A", "T", "I", "O", "N",
    "S">>
\* "LOW"
S_LOW == <<"L", "O", "W">>
\* "MEDIUM"
S_MEDIUM == <<"M", "E", "D", "I", "U", "M">>
\* "HIGH"
S_HIGH == <<"H", "I", "G", "H">>
\* "UNKNOWN"
S_UNKNOWN == <<"U", "N", "K", "N", "O", "W", "N">>
\* "Keine Zusammenfassung vorhanden."
S_NoSummary ==
  <<"K", "e", "i", "n", "e", " ", "Z", "u", "s", "a", "m", "m", "e", "n",
    "f", "a", "s", "s", "u", "n", "g", " ", "v", "o", "r", "h", "a", "n",
    "d", "e", "n", ".">>
\* "Keine Empfehlungen vorhanden."
S_NoRecommendations ==
  <<"K", "e", "i", "n", "e", " ", "E", "m", "p", "f", "e", "h", "l", "u",
    "n", "g", "e", "n", " ", "v", "o", "r", "h", "a", "n", "d", "e", "n",
    ".">>


\* the section patterns' headers: (A|B): or A[^:]*: or A[^:]*B[^:]*:
HeaderAlt(alts) == [kind |-> "alt", lits |-> alts]
HeaderGap1(l1) == [kind |-> "gap1", lits |-> <<l1>>]
HeaderGap2(l1, l2) == [kind |-> "gap2", lits |-> <<l1, l2>>]

\* the header tried at position i: the position after its colon, or 0
HeaderEnd(t, i, hdr) ==
  LET l1 == hdr.lits[1]
      colon == IndexOfChar(t, i + Len(l1), ":")
  IN  CASE hdr.kind = "alt" ->
             IF \E a \in DOMAIN hdr.lits :
                  MatchCI(t, i, hdr.lits[a] \o <<":">>)
               THEN i + 1 + Len(hdr.lits[CHOOSE a \in DOMAIN hdr.lits :
                                           MatchCI(t, i, hdr.lits[a] \o <<":">>)])
               ELSE 0
        [] hdr.kind = "gap1" ->
             IF MatchCI(t, i, l1) /\ colon <= Len(t) THEN colon + 1 ELSE 0
        [] hdr.kind = "gap2" ->
             IF /\ MatchCI(t, i, l1)
                /\ colon <= Len(t)
                /\ \E j \in (i + Len(l1))..(colon - Len(hdr.lits[2])) :
                     MatchCI(t, j, hdr.lits[2])
               THEN colon + 1 ELSE 0

\* \s*(.+?) after a header that ends before position h: where the capture
\* starts, or 0.  \s* takes all the white space; when nothing follows it, it
\* gives its last character back to the capture, which needs one.
CaptureStart(t, h) ==
  LET w == SkipWs(t, h)
  IN  IF w <= Len(t) THEN w
      ELSE IF w > h THEN Len(t)
      ELSE 0

\* (.+?)(?=T1|T2|...|$) from position start: the capture grows from one
\* character until a terminator or the end of the text follows; the position
\* after the capture
CaptureEnd(t, start, terms) ==
  CHOOSE e \in (start + 1)..(Len(t) + 1) :
    /\ e = Len(t) + 1 \/ \E k \in DOMAIN terms : MatchCI(t, e, terms[k])
    /\ \A f \in (start + 1)..(e - 1) :
         \A k \in DOMAIN terms : ~MatchCI(t, f, terms[k])

\* response.match(/HEADER\s*(.+?)(?=T1|...|$)/is): group 1 of the leftmost
\* match, or undefined
SectionMatch(t, hdr, terms) ==
  LET starts == {i \in 1..Len(t) :
                   /\ HeaderEnd(t, i, hdr) # 0
                   /\ CaptureStart(t, HeaderEnd(t, i, hdr)) # 0}
      i0 == CHOOSE i \in starts : \A j \in starts : i <= j
      from == CaptureStart(t, HeaderEnd(t, i0, hdr))
  IN  IF starts = {} THEN Undefined
      ELSE Some(SubSeq(t, from, CaptureEnd(t, from, terms) - 1))

\* m ? cleanMarkdown(m[1].trim()) : undefined
SectionText(t, hdr, terms) ==
  IF IsDefined(SectionMatch(t, hdr, terms))
    THEN Some(cleanMarkdown(trim(Val(SectionMatch(t, hdr, terms)))))
    ELSE Undefined

\* a summary without default
summaryOf_NoDefault(t) ==
  LET m == SectionText(t, HeaderAlt(<<S_SUMMARY, S_ZUSAMMENFASSUNG>>),
             <<S_BESCHREIBUNG, S_DESCRIPTION, S_BRUTTORISIKEN, S_RISK_LEVEL>>)
  IN  IF IsDefined(m) THEN Val(m) ELSE <<>>

summaryOf(t) ==
  LET m == SectionText(t, HeaderAlt(<<S_SUMMARY, S_ZUSAMMENFASSUNG>>),
             <<S_BESCHREIBUNG, S_DESCRIPTION, S_BRUTTORISIKEN, S_RISK_LEVEL>>)
  IN  IF IsDefined(m) THEN Val(m) ELSE S_NoSummary

descriptionOf(t) ==
  SectionText(t, HeaderGap1(S_BESCHREIBUNG),
              <<S_POTENTIELL, S_BRUTTORISIKEN, S_MASSNAHMEN>>)

bruttorisikenOf(t) ==
  SectionText(t, HeaderGap2(S_POTENTIELL, S_BRUTTORISIKEN),
              <<S_GEPLANTE, S_MASSNAHMEN, S_NETTORISIKEN>>)

massnahmenOf(t) ==
  SectionText(t, HeaderGap2(S_GEPLANTE, S_MASSNAHMEN),
              <<S_VERBLEIBENDE, S_NETTORISIKEN, S_ERGEBNIS, S_RISK_LEVEL,
                S_EMPFEHLUNGEN>>)

nettorisikenOf(t) ==
  SectionText(t, HeaderGap2(S_VERBLEIBENDE, S_NETTORISIKEN),
              <<S_ERGEBNIS, S_RISK_LEVEL, S_EMPFEHLUNGEN>>)

ergebnisOf(t) ==
  SectionText(t, HeaderAlt(<<S_ERGEBNIS>>), <<S_RISK_LEVEL, S_EMPFEHLUNGEN>>)

riskLevels == <<S_LOW, S_MEDIUM, S_HIGH>>

RECURSIVE RiskMatch(_, _)
\* response.match(/RISK_LEVEL:\s*(LOW|MEDIUM|HIGH)/i) from position i on:
\* group 1 of the leftmost match, or undefined
RiskMatch(t, i) ==
  IF i > Len(t) THEN Undefined
  ELSE LET p == SkipWs(t, i + Len(S_RISK_LEVEL) + 1)
       IN  IF /\ MatchCI(t, i, S_RISK_LEVEL \o <<":">>)
              /\ \E k \in DOMAIN riskLevels : MatchCI(t, p, riskLevels[k])
             THEN Some(SubSeq(t, p, p - 1 + Len(riskLevels[
                         CHOOSE k \in DOMAIN riskLevels :
                           MatchCI(t, p, riskLevels[k])])))
             ELSE RiskMatch(t, i + 1)

\* the level as the reply writes it
riskLevelOf_Raw(t) ==
  IF IsDefined(RiskMatch(t, 1)) THEN Val(RiskMatch(t, 1)) ELSE S_UNKNOWN

\* riskMatch ? riskMatch[1].toUpperCase() : 'UNKNOWN'
riskLevelOf(t) ==
  IF IsDefined(RiskMatch(t, 1)) THEN toUpperCase(Val(RiskMatch(t, 1)))
  ELSE S_UNKNOWN

RECURSIVE SplitAt(_, _, _)
\* t.split(c) from position i on: the pieces between the occurrences of c
SplitAt(t, i, c) ==
  LET j == IndexOfChar(t, i, c)
  IN  IF j > Len(t) THEN <<SubSeq(t, i, Len(t))>>
      ELSE <<SubSeq(t, i, j - 1)>> \o SplitAt(t, j + 1, c)

split(t, c) == SplitAt(t, 1, c)

\* the rest of t from position i on
From(t, i) == SubSeq(t, i, Len(t))

\* /^[\d]+[\.\)]/ : the position after the marker, or 0
OrdinalEnd(line) ==
  LET d == SkipDigits(line, 1)
  IN  IF d > 1 /\ d <= Len(line) /\ line[d] \in {".", ")"} THEN d + 1 ELSE 0

\* /^[\(][a-zA-Z][\)]/ : the position after the marker, or 0
LetterEnd(line) ==
  IF Len(line) >= 3 /\ line[1] = "(" /\ IsLetter(line[2]) /\ line[3] = ")"
    THEN 4 ELSE 0

\* /^[-•*]/ : the position after the marker, or 0
BulletEnd(line) ==
  IF Len(line) >= 1 /\ line[1] \in {"-", bullet, "*"} THEN 2 ELSE 0

\* line.replace(/^MARKER\s*/, '') for a marker that ends before position e
DropMarker(line, e) == IF e = 0 THEN line ELSE From(line, SkipWs(line, e))

\* markers left in place
stripMarkers_None(line) == line

\* the three replacements of a recommendation line, one after the other
stripMarkers(line) ==
  LET l1 == DropMarker(line, OrdinalEnd(line))
      l2 == DropMarker(l1, LetterEnd(l1))
  IN  DropMarker(l2, BulletEnd(l2))

\* line.match(/^[\d]+[\.\)]\s+|^[\(][a-zA-Z][\)]\s+|^[-•*]\s+/)
hasMarker(line) ==
  \E e \in {OrdinalEnd(line), LetterEnd(line), BulletEnd(line)} :
    e # 0 /\ e <= Len(line) /\ IsSpace(line[e])

\* line.match(/^[\(][\d]+[\)]\s*$/)
isBareNumber(line) ==
  LET d == SkipDigits(line, 2)
  IN  /\ Len(line) >= 3
      /\ line[1] = "("
      /\ d > 2
      /\ d <= Len(line)
      /\ line[d] = ")"
      /\ SkipWs(line, d + 1) > Len(line)

\* .slice(0, 10)
MaxRecommendations == 10
Slice(seq, n) == SubSeq(seq, 1, IF Len(seq) < n THEN Len(seq) ELSE n)

\* .length > 10
MinLength == 10

\* a first tier that filters as the third does
keepTier1_NonEmpty(line) == Len(line) > 0

\* tier 1's filter: line.length > 10 && !line.match(/^[\(][\d]+[\)]\s*$/)
keepTier1(line) == Len(line) > MinLength /\ ~isBareNumber(line)

\* tier 2's filter: line !== null && line.length > 10
keepTier2(line) == line # Undefined /\ Len(Val(line)) > MinLength

\* tier 3's filter: line.length > 0
keepTier3(line) == Len(line) > 0

\* the recommendations of the EMPFEHLUNGEN section
tier1(t) ==
  LET m == SectionMatch(t, HeaderAlt(<<S_EMPFEHLUNGEN>>), <<S_RISK_LEVEL>>)
      lines == split(cleanMarkdown(Val(m)), NL)
      mapped == [k \in 1..Len(lines) |-> trim(stripMarkers(lines[k]))]
  IN  IF IsDefined(m)
        THEN Slice(SelectSeq(mapped, keepTier1), MaxRecommendations)
        ELSE <<>>

\* one line of the measures section: its text after the marker and the first
\* colon, or null (undefined) for a line without a marker
tier2Line(rawLine) ==
  LET line == cleanMarkdown(rawLine)
      stripped == stripMarkers(line)
      parts == split(stripped, ":")
  IN  IF hasMarker(line)
        THEN IF Len(parts) > 1
               THEN Some(trim(From(stripped, Len(parts[1]) + 2)))
               ELSE Some(trim(stripped))
        ELSE Undefined

\* the recommendations taken from the measures section
tier2(massnahmen) ==
  LET lines == split(massnahmen, NL)
      mapped == [k \in 1..Len(lines) |-> tier2Line(lines[k])]
      kept == SelectSeq(mapped, keepTier2)
  IN  Slice([k \in 1..Len(kept) |-> Val(kept[k])], MaxRecommendations)

\* the recommendations of the old format's RECOMMENDATIONS label
tier3(t) ==
  LET m == SectionMatch(t, HeaderAlt(<<S_RECOMMENDATIONS>>), << <<NL, NL>> >>)
      recommendationsText == IF IsDefined(m) THEN cleanMarkdown(Val(m)) ELSE <<>>
      lines == split(recommendationsText, NL)
      mapped == [k \in 1..Len(lines) |-> trim(stripMarkers(lines[k]))]
  IN  SelectSeq(mapped, keepTier3)

\* a third tier that runs whatever the tiers before it gave
recommendationsOf_LastWins(t) ==
  LET r1 == tier1(t)
      massnahmen == massnahmenOf(t)
      r2 == IF Len(r1) = 0 /\ IsDefined(massnahmen) /\ Val(massnahmen) # <<>>
              THEN tier2(Val(massnahmen)) ELSE r1
  IN  IF Len(tier3(t)) = 0 THEN r2 ELSE tier3(t)

\* the three tiers in turn: a tier runs when the ones before it left the list
\* empty (the second also needs a non-empty measures section)
recommendationsOf(t) ==
  LET r1 == tier1(t)
      massnahmen == massnahmenOf(t)
      r2 == IF Len(r1) = 0 /\ IsDefined(massnahmen) /\ Val(massnahmen) # <<>>
              THEN tier2(Val(massnahmen)) ELSE r1
  IN  IF Len(r2) = 0 THEN tier3(t) ELSE r2

\* no placeholder
orPlaceholder_None(recommendations) == recommendations

\* recommendations.length > 0 ? recommendations : ['Keine Empfehlungen vorhanden.']
orPlaceholder(recommendations) ==
  IF Len(recommendations) > 0 THEN recommendations ELSE <<S_NoRecommendations>>

\* a parser that looks for citations in the summary only
parseResponse_SummaryRefs(t) ==
  [summary |-> summaryOf(t),
   riskLevel |-> riskLevelOf(t),
   analysis |-> t,
   recommendations |-> orPlaceholder(recommendationsOf(t)),
   legalReferences |-> extractLegalReferences(summaryOf(t)),
   description |-> descriptionOf(t),
   bruttorisiken |-> bruttorisikenOf(t),
   massnahmen |-> massnahmenOf(t),
   nettorisiken |-> nettorisikenOf(t),
   ergebnis |-> ergebnisOf(t)]

parseResponse(t) ==
  [summary |-> summaryOf(t),
   riskLevel |-> riskLevelOf(t),
   analysis |-> t,
   recommendations |-> orPlaceholder(recommendationsOf(t)),
   legalReferences |-> extractLegalReferences(t),
   description |-> descriptionOf(t),
   bruttorisiken |-> bruttorisikenOf(t),
   massnahmen |-> massnahmenOf(t),
   nettorisiken |-> nettorisikenOf(t),
   ergebnis |-> ergebnisOf(t)]

---------------------------------------------------------------------------
(* Inputs of the citation extractor: texts put together from fragments *)

\* "Art. 5 DSG"
F_Art5DSG == <<"A", "r", "t", ".", " ", "5", " ", "D", "S", "G">>
\* "Art. 5 Abs. 2 DSG"
F_Art5Abs2DSG ==
  <<"A", "r", "t", ".", " ", "5", " ", "A", "b", "s", ".", " ", "2", " ", "D", "S", "G">>
\* "Art.5 DSG"
F_Art5DSG_tight == <<"A", "r", "t", ".", "5", " ", "D", "S", "G">>
\* "art. 12a zgb"
F_art12a_zgb == <<"a", "r", "t", ".", " ", "1", "2", "a", " ", "z", "g", "b">>
\* "Art. 28 OR"
F_Art28OR == <<"A", "r", "t", ".", " ", "2", "8", " ", "O", "R">>
\* "Art. 13 BV"
F_Art13BV == <<"A", "r", "t", ".", " ", "1", "3", " ", "B", "V">>
\* "Art. 1 StGB"
F_Art1StGB == <<"A", "r", "t", ".", " ", "1", " ", "S", "t", "G", "B">>
\* "Art. 1 stgb"
F_Art1stgb == <<"A", "r", "t", ".", " ", "1", " ", "s", "t", "g", "b">>
\* "Art. 7 XYZ"
F_Art7XYZ == <<"A", "r", "t", ".", " ", "7", " ", "X", "Y", "Z">>
\* "Art. 3"
F_Art3 == <<"A", "r", "t", ".", " ", "3">>
\* " "
F_space == <<" ">>

RefFragments ==
  {F_Art5DSG, F_Art5Abs2DSG, F_Art5DSG_tight, F_art12a_zgb, F_Art28OR,
   F_Art13BV, F_Art1StGB, F_Art1stgb, F_Art7XYZ, F_Art3, F_space,
   S_Datenschutzgesetz}

\* the most fragments in a text
MaxRefFragments == 3

RefTexts == {Flatten(fs) : fs \in SeqsUpTo(RefFragments, MaxRefFragments)}

---------------------------------------------------------------------------
(* The citation extractor applied to a text *)

InitRefs ==
  /\ text \in RefTexts
  /\ refs = <<>>
  /\ xpc = "call"
  /\ ParseIdle /\ ServerIdle /\ RetrieveIdle /\ PromptIdle /\ CleanIdle
  /\ ClientIdle /\ RenderIdle
  /\ articles = <<>>

CallExtractLegalReferences ==
  /\ xpc = "call"
  /\ refs' = extractLegalReferences(text)
  /\ xpc' = "done"
  /\ UNCHANGED <<text, parseVars, req, envVars, articles, retrieveVars, promptVars,
               cleanVars, client, render>>

NextRefs == CallExtractLegalReferences

SpecRefs == InitRefs /\ [][NextRefs]_vars
---------------------------------------------------------------------------
(* Inputs of the response parser: replies put together from fragments *)

\* "EMPFEHLUNGEN:\n"
P_Empfehlungen ==
  <<"E", "M", "P", "F", "E", "H", "L", "U", "N", "G", "E", "N", ":", NL>>
\* "GEPLANTE MASSNAHMEN:\n"
P_Massnahmen ==
  <<"G", "E", "P", "L", "A", "N", "T", "E", " ", "M", "A", "S", "S", "N",
    "A", "H", "M", "E", "N", ":", NL>>
\* "RECOMMENDATIONS:\n"
P_Recommendations ==
  <<"R", "E", "C", "O", "M", "M", "E", "N", "D", "A", "T", "I", "O", "N",
    "S", ":", NL>>
\* "1. Daten verschluesseln\n"
P_Ordinal ==
  <<"1", ".", " ", "D", "a", "t", "e", "n", " ", "v", "e", "r", "s", "c",
    "h", "l", "u", "e", "s", "s", "e", "l", "n", NL>>
\* "- Do Y\n"
P_Short == <<"-", " ", "D", "o", " ", "Y", NL>>
\* "(a) Zugriff: nur intern erlaubt\n"
P_Letter ==
  <<"(", "a", ")", " ", "Z", "u", "g", "r", "i", "f", "f", ":", " ", "n",
    "u", "r", " ", "i", "n", "t", "e", "r", "n", " ", "e", "r", "l", "a",
    "u", "b", "t", NL>>
\* "(1) Verschlüsselung der Daten: weil sensibel (Art. 8 DSG)\n"
P_Paren ==
  <<"(", "1", ")", " ", "V", "e", "r", "s", "c", "h", "l", uuml, "s", "s",
    "e", "l", "u", "n", "g", " ", "d", "e", "r", " ", "D", "a", "t", "e",
    "n", ":", " ", "w", "e", "i", "l", " ", "s", "e", "n", "s", "i", "b",
    "e", "l", " ", "(", "A", "r", "t", ".", " ", "8", " ", "D", "S", "G",
    ")", NL>>
\* "(123456789)\n"
P_Number == <<"(", "1", "2", "3", "4", "5", "6", "7", "8", "9", ")", NL>>
\* "\n"
P_Blank == <<NL>>
\* "RISK_LEVEL: HIGH\n"
P_Risk ==
  <<"R", "I", "S", "K", "_", "L", "E", "V", "E", "L", ":", " ", "H", "I",
    "G", "H", NL>>
\* "* **Backup** pro Tag\n"
P_Bold ==
  <<"*", " ", "*", "*", "B", "a", "c", "k", "u", "p", "*", "*", " ", "p",
    "r", "o", " ", "T", "a", "g", NL>>

RecFragments ==
  {P_Empfehlungen, P_Massnahmen, P_Recommendations, P_Ordinal, P_Short,
   P_Letter, P_Paren, P_Number, P_Blank, P_Risk, P_Bold}

\* the most fragments in a reply about recommendations
MaxRecFragments == 3

\* "RISK_LEVEL:"
R_Label == <<"R", "I", "S", "K", "_", "L", "E", "V", "E", "L", ":">>
\* "Risk_Level:"
R_LabelMixed == <<"R", "i", "s", "k", "_", "L", "e", "v", "e", "l", ":">>
\* "RISK LEVEL:"
R_LabelWrong == <<"R", "I", "S", "K", " ", "L", "E", "V", "E", "L", ":">>
\* "HIGH"
R_High == <<"H", "I", "G", "H">>
\* "low"
R_low == <<"l", "o", "w">>
\* "Medium"
R_Medium == <<"M", "e", "d", "i", "u", "m">>
\* "[LOW|MEDIUM|HIGH]"
R_Echo ==
  <<"[", "L", "O", "W", "|", "M", "E", "D", "I", "U", "M", "|", "H", "I",
    "G", "H", "]">>

RiskFragments ==
  {R_Label, R_LabelMixed, R_LabelWrong, R_High, R_low, R_Medium, R_Echo,
   F_space, P_Blank, P_Risk}

\* the most fragments in a reply about the risk level
MaxRiskFragments == 3

\* "SUMMARY: "
L_Summary ==
  <<"S", "U", "M", "M", "A", "R", "Y", ":", " ">>
\* " RISK_LEVEL: "
L_Risk ==
  <<" ", "R", "I", "S", "K", "_", "L", "E", "V", "E", "L", ":", " ">>
\* " RECOMMENDATIONS:"
L_Recs ==
  <<" ", "R", "E", "C", "O", "M", "M", "E", "N", "D", "A", "T", "I", "O", "N", "S", ":">>
\* "Hello."
L_Hello ==
  <<"H", "e", "l", "l", "o", ".">>
\* "Kurz und gut"
L_Kurz ==
  <<"K", "u", "r", "z", " ", "u", "n", "d", " ", "g", "u", "t">>
\* "- "
L_Dash ==
  <<"-", " ">>
\* "* "
L_Star ==
  <<"*", " ">>
\* "1. "
L_Ord ==
  <<"1", ".", " ">>
\* "Do X (Art. 5 DSG)"
L_DoX ==
  <<"D", "o", " ", "X", " ", "(", "A", "r", "t", ".", " ", "5", " ", "D", "S", "G", ")">>
\* "Do Y"
L_DoY ==
  <<"D", "o", " ", "Y">>
\* "Daten loeschen"
L_Loeschen ==
  <<"D", "a", "t", "e", "n", " ", "l", "o", "e", "s", "c", "h", "e", "n">>

\* a bullet line of the old format: its marker and its text
LegacyItems ==
  {[marker |-> L_Dash, content |-> L_DoX],
   [marker |-> L_Dash, content |-> L_DoY],
   [marker |-> L_Star, content |-> L_Loeschen],
   [marker |-> L_Ord, content |-> L_Loeschen],
   [marker |-> <<bullet, " ">>, content |-> L_DoY]}
LegacySummaries == {L_Hello, L_Kurz}
LegacyLevels == {S_LOW, S_MEDIUM, S_HIGH}
\* the most bullet lines in a reply of the old format
MaxLegacyItems == 2
LegacyLists == SeqsUpTo(LegacyItems, MaxLegacyItems) \ {<<>>}

\* 'SUMMARY: <s> RISK_LEVEL: <level> RECOMMENDATIONS:' and the bullet lines
LegacyReply(s, level, items) ==
  L_Summary \o s \o L_Risk \o level \o L_Recs
    \o Flatten([k \in DOMAIN items |->
                  <<NL>> \o items[k].marker \o items[k].content])

LegacyReplies ==
  {LegacyReply(s, level, items) :
     s \in LegacySummaries, level \in LegacyLevels, items \in LegacyLists}

\* "ZUSAMMENFASSUNG:"
K_Zusammenfassung ==
  <<"Z", "U", "S", "A", "M", "M", "E", "N", "F", "A", "S", "S", "U", "N", "G", ":">>
\* "BESCHREIBUNG DER GE PLANTEN BEARBEITUNG:"
K_Beschreibung ==
  <<"B", "E", "S", "C", "H", "R", "E", "I", "B", "U", "N", "G", " ", "D", "E", "R", " ", "G", "E", " ", "P", "L", "A", "N", "T", "E", "N", " ", "B", "E", "A", "R", "B", "E", "I", "T", "U", "N", "G", ":">>
\* "POTENTIELL HOHE BRUTTORISIKEN:"
K_Bruttorisiken ==
  <<"P", "O", "T", "E", "N", "T", "I", "E", "L", "L", " ", "H", "O", "H", "E", " ", "B", "R", "U", "T", "T", "O", "R", "I", "S", "I", "K", "E", "N", ":">>
\* "GEPLANTE MASSNAHMEN ZUR SENKUNG DER BRUTTORISIKEN:"
K_Massnahmen ==
  <<"G", "E", "P", "L", "A", "N", "T", "E", " ", "M", "A", "S", "S", "N", "A", "H", "M", "E", "N", " ", "Z", "U", "R", " ", "S", "E", "N", "K", "U", "N", "G", " ", "D", "E", "R", " ", "B", "R", "U", "T", "T", "O", "R", "I", "S", "I", "K", "E", "N", ":">>
\* "VERBLEIBENDE NETTORISIKEN:"
K_Nettorisiken ==
  <<"V", "E", "R", "B", "L", "E", "I", "B", "E", "N", "D", "E", " ", "N", "E", "T", "T", "O", "R", "I", "S", "I", "K", "E", "N", ":">>
\* "ERGEBNIS:"
K_Ergebnis ==
  <<"E", "R", "G", "E", "B", "N", "I", "S", ":">>
\* "RISK_LEVEL: "
K_RiskLevel ==
  <<"R", "I", "S", "K", "_", "L", "E", "V", "E", "L", ":", " ">>
\* "EMPFEHLUNGEN:"
K_Empfehlungen ==
  <<"E", "M", "P", "F", "E", "H", "L", "U", "N", "G", "E", "N", ":">>
\* "Heikel (Art. 22 DSG)."
B_Heikel ==
  <<"H", "e", "i", "k", "e", "l", " ", "(", "A", "r", "t", ".", " ", "2", "2", " ", "D", "S", "G", ")", ".">>
\* "Hohe Bruttorisiken bestehen."
B_HoheBrutto ==
  <<"H", "o", "h", "e", " ", "B", "r", "u", "t", "t", "o", "r", "i", "s", "i", "k", "e", "n", " ", "b", "e", "s", "t", "e", "h", "e", "n", ".">>
\* "Kundendaten in der Cloud."
B_Cloud ==
  <<"K", "u", "n", "d", "e", "n", "d", "a", "t", "e", "n", " ", "i", "n", " ", "d", "e", "r", " ", "C", "l", "o", "u", "d", ".">>
\* "**Cloud** Speicher"
B_BoldCloud ==
  <<"*", "*", "C", "l", "o", "u", "d", "*", "*", " ", "S", "p", "e", "i", "c", "h", "e", "r">>
\* "Cloud Speicher"
B_CloudSpeicher ==
  <<"C", "l", "o", "u", "d", " ", "S", "p", "e", "i", "c", "h", "e", "r">>
\* "Keine Massnahmen bisher."
B_KeineMassnahmen ==
  <<"K", "e", "i", "n", "e", " ", "M", "a", "s", "s", "n", "a", "h", "m", "e", "n", " ", "b", "i", "s", "h", "e", "r", ".">>
\* "Profiling der Kunden."
B_Profiling ==
  <<"P", "r", "o", "f", "i", "l", "i", "n", "g", " ", "d", "e", "r", " ", "K", "u", "n", "d", "e", "n", ".">>
\* "- Vertrag pruefen: senkt Risiko (Art. 9 DSG)"
B_Vertrag ==
  <<"-", " ", "V", "e", "r", "t", "r", "a", "g", " ", "p", "r", "u", "e", "f", "e", "n", ":", " ", "s", "e", "n", "k", "t", " ", "R", "i", "s", "i", "k", "o", " ", "(", "A", "r", "t", ".", " ", "9", " ", "D", "S", "G", ")">>
\* "Gering."
B_Gering ==
  <<"G", "e", "r", "i", "n", "g", ".">>
\* "Das Ergebnis ist offen."
B_Offen ==
  <<"D", "a", "s", " ", "E", "r", "g", "e", "b", "n", "i", "s", " ", "i", "s", "t", " ", "o", "f", "f", "e", "n", ".">>
\* "Vorlage: Nein."
B_Nein ==
  <<"V", "o", "r", "l", "a", "g", "e", ":", " ", "N", "e", "i", "n", ".">>
\* "1. Konkrete Empfehlung (Art. 5 DSG)"
B_Empfehlung ==
  <<"1", ".", " ", "K", "o", "n", "k", "r", "e", "t", "e", " ", "E", "m", "p", "f", "e", "h", "l", "u", "n", "g", " ", "(", "A", "r", "t", ".", " ", "5", " ", "D", "S", "G", ")">>

\* a section body: the text the reply holds and the text cleanMarkdown and
\* trim leave of it
Plain(b) == [raw |-> b, clean |-> b]
SummaryBodies == {Plain(B_Heikel), Plain(B_HoheBrutto)}
DescriptionBodies ==
  {Plain(B_Cloud), [raw |-> B_BoldCloud, clean |-> B_CloudSpeicher],
   Plain(B_KeineMassnahmen)}
BruttorisikenBodies == {Plain(B_Profiling)}
MassnahmenBodies == {Plain(B_Vertrag)}
NettorisikenBodies == {Plain(B_Gering), Plain(B_Offen)}
ErgebnisBodies == {Plain(B_Nein)}

\* label, line break, body, blank line
Section(label, body) == label \o <<NL>> \o body.raw \o <<NL, NL>>

\* a reply with the labels of the prompt's output format, in its order
ContractReply(su, de, br, ma, ne, er) ==
  Section(K_Zusammenfassung, su) \o Section(K_Beschreibung, de)
    \o Section(K_Bruttorisiken, br) \o Section(K_Massnahmen, ma)
    \o Section(K_Nettorisiken, ne) \o Section(K_Ergebnis, er)
    \o K_RiskLevel \o S_HIGH \o <<NL, NL>>
    \o K_Empfehlungen \o <<NL>> \o B_Empfehlung

ContractReplies ==
  {ContractReply(su, de, br, ma, ne, er) :
     su \in SummaryBodies, de \in DescriptionBodies,
     br \in BruttorisikenBodies, ma \in MassnahmenBodies,
     ne \in NettorisikenBodies, er \in ErgebnisBodies}

\* "SUMMARY:"
Y_Summary == S_SUMMARY \o <<":">>
\* "ZUSAMMENFASSUNG:"
Y_Zusammenfassung == S_ZUSAMMENFASSUNG \o <<":">>
\* a code block: three backticks, "x", three backticks
Y_Fenced == <<backtick, backtick, backtick, "x", backtick, backtick, backtick>>

SummaryFragments ==
  {Y_Summary, Y_Zusammenfassung, Y_Fenced, L_Hello, F_space, P_Blank, P_Risk}

\* the most fragments in a reply about the summary
MaxSummaryFragments == 3

Replies ==
  {Flatten(fs) : fs \in SeqsUpTo(RecFragments, MaxRecFragments)}
    \cup {Flatten(fs) : fs \in SeqsUpTo(RiskFragments, MaxRiskFragments)}
    \cup {Flatten(fs) : fs \in SeqsUpTo(SummaryFragments, MaxSummaryFragments)}
    \cup LegacyReplies
    \cup ContractReplies

---------------------------------------------------------------------------
(* The response parser applied to a reply *)

InitParse ==
  /\ response \in Replies
  /\ parsed = <<>>
  /\ ppc = "call"
  /\ RefsIdle /\ ServerIdle /\ RetrieveIdle /\ PromptIdle /\ CleanIdle
  /\ ClientIdle /\ RenderIdle
  /\ articles = <<>>

CallParseResponse ==
  /\ ppc = "call"
  /\ parsed' = parseResponse(response)
  /\ ppc' = "done"
  /\ UNCHANGED <<response, refVars, req, envVars, articles, retrieveVars,
               promptVars, cleanVars, client, render>>

NextParse == CallParseResponse

SpecParse == InitParse /\ [][NextParse]_vars
---------------------------------------------------------------------------
(* Retrieval of context articles *)

LowerOf == [c \in {UpperLetters[k] : k \in 1..27} |->
              LowerLetters[CHOOSE k \in 1..27 : UpperLetters[k] = c]]

\* String.prototype.toLowerCase
toLowerCase(s) ==
  [k \in 1..Len(s) |-> IF s[k] \in DOMAIN LowerOf THEN LowerOf[s[k]] ELSE s[k]]

\* [a-zäöüöäß]
IsTokenChar(c) == c \in AsciiLower \cup {auml, ouml, uuml, szlig}

RECURSIVE SkipTokenChars(_, _)
\* [a-zäöüöäß]+ (greedy): the first position at or after i that holds none
SkipTokenChars(t, i) ==
  IF i <= Len(t) /\ IsTokenChar(t[i]) THEN SkipTokenChars(t, i + 1) ELSE i

RECURSIVE MatchTokens(_, _)
\* t.match(/[a-zäöüöäß]+/gi) from position i on
MatchTokens(t, i) ==
  IF i > Len(t) THEN <<>>
  ELSE IF IsTokenChar(t[i])
    THEN <<SubSeq(t, i, SkipTokenChars(t, i) - 1)>>
           \o MatchTokens(t, SkipTokenChars(t, i))
  ELSE MatchTokens(t, i + 1)

\* (value.toLowerCase().match(...) || []).map((t) => t.trim()).filter(Boolean)
tokenize(value) == MatchTokens(toLowerCase(value), 1)

\* new Set(tokens)
TokenSet(tokens) == {tokens[k] : k \in DOMAIN tokens}

\* limit = 5
DefaultLimit == 5

\* queryTokens.forEach((token) => { if (articleTokens.has(token)) overlap += 1 })
overlap(queryTokens, articleTokens) ==
  Cardinality({k \in DOMAIN queryTokens : queryTokens[k] \in articleTokens})

\* DSG_ARTICLES.map((article) => ({ article, score: overlap }))
scoresOf(arts, queryTokens) ==
  [k \in DOMAIN arts |->
     [article |-> arts[k],
      score |-> overlap(queryTokens, TokenSet(tokenize(arts[k].text)))]]

\* an entry put into a list sorted by descending score, behind the entries
\* of its score
InsertByScore(sorted, e) ==
  LET before == {k \in DOMAIN sorted : sorted[k].score >= e.score}
      n == Cardinality(before)
  IN  SubSeq(sorted, 1, n) \o <<e>> \o SubSeq(sorted, n + 1, Len(sorted))

\* no sort
SortByScore_None(entries) == entries

RECURSIVE SortByScore(_)
\* .sort((a, b) => b.score - a.score): descending, and stable
SortByScore(entries) ==
  IF entries = <<>> THEN <<>>
  ELSE InsertByScore(SortByScore(SubSeq(entries, 1, Len(entries) - 1)),
                     entries[Len(entries)])

\* .filter(({ score }) => score > 0)
hasScore(e) == e.score > 0

retrieveDsgContext(arts, q, lim) ==
  LET queryTokens == tokenize(q)
      n == IF IsDefined(lim) THEN Val(lim) ELSE DefaultLimit
      ranked == Slice(SortByScore(SelectSeq(scoresOf(arts, queryTokens),
                                            hasScore)), n)
  IN  IF Len(arts) = 0 THEN <<>>
      ELSE IF Len(queryTokens) = 0 THEN <<>>
      ELSE [k \in DOMAIN ranked |-> ranked[k].article]

\* "Art. 1"
A_Id1 ==
  <<"A", "r", "t", ".", " ", "1">>
\* "Art. 2"
A_Id2 ==
  <<"A", "r", "t", ".", " ", "2">>
\* "Art. 3"
A_Id3 ==
  <<"A", "r", "t", ".", " ", "3">>
\* "Art. 4"
A_Id4 ==
  <<"A", "r", "t", ".", " ", "4">>
\* "Art. 5"
A_Id5 ==
  <<"A", "r", "t", ".", " ", "5">>
\* "Art. 6"
A_Id6 ==
  <<"A", "r", "t", ".", " ", "6">>
\* "Art. 7"
A_Id7 ==
  <<"A", "r", "t", ".", " ", "7">>
\* "Zweck"
A_Zweck ==
  <<"Z", "w", "e", "c", "k">>
\* "Sicherheit"
A_Sicherheit ==
  <<"S", "i", "c", "h", "e", "r", "h", "e", "i", "t">>
\* "Auskunft"
A_Auskunft ==
  <<"A", "u", "s", "k", "u", "n", "f", "t">>
\* "Verschlüsselung von  Personendaten"
A_Text1 ==
  <<"V", "e", "r", "s", "c", "h", "l", uuml, "s", "s", "e", "l", "u",
    "n", "g", " ", "v", "o", "n", " ", " ", "P", "e", "r", "s", "o", "n",
    "e", "n", "d", "a", "t", "e", "n">>
\* "Personendaten\nschützen"
A_Text2 ==
  <<"P", "e", "r", "s", "o", "n", "e", "n", "d", "a", "t", "e", "n", NL,
    "s", "c", "h", uuml, "t", "z", "e", "n">>
\* "Die Verschlüsselung"
A_Text3 ==
  <<"D", "i", "e", " ", "V", "e", "r", "s", "c", "h", "l", uuml, "s",
    "s", "e", "l", "u", "n", "g">>
\* "Auskunft 2024"
A_Text4 ==
  <<"A", "u", "s", "k", "u", "n", "f", "t", " ", "2", "0", "2", "4">>
\* "Von Personendaten"
A_Text5 ==
  <<"V", "o", "n", " ", "P", "e", "r", "s", "o", "n", "e", "n", "d", "a",
    "t", "e", "n">>
\* "personendaten"
A_Text6 ==
  <<"p", "e", "r", "s", "o", "n", "e", "n", "d", "a", "t", "e", "n">>
\* "Verschlüsselung"
Q_Verschluesselung ==
  <<"V", "e", "r", "s", "c", "h", "l", uuml, "s", "s", "e", "l", "u",
    "n", "g">>
\* "personendaten"
Q_personendaten ==
  <<"p", "e", "r", "s", "o", "n", "e", "n", "d", "a", "t", "e", "n">>
\* "von"
Q_von ==
  <<"v", "o", "n">>
\* "42"
Q_42 ==
  <<"4", "2">>

Article(id, heading, body) == [id |-> id, heading |-> heading, text |-> body]
Art1 == Article(A_Id1, A_Zweck, A_Text1)
Art2 == Article(A_Id2, <<>>, A_Text2)
Art3 == Article(A_Id3, A_Sicherheit, A_Text3)
Art4 == Article(A_Id4, A_Auskunft, A_Text4)
Art5 == Article(A_Id5, A_Zweck, A_Text5)
Art6 == Article(A_Id6, A_Sicherheit, A_Text6)
Art7 == Article(A_Id7, A_Sicherheit, Q_Verschluesselung)

\* the most articles in a collection drawn from the first four
MaxArticles == 2
\* a collection larger than the default limit
FullCollection == <<Art4, Art6, Art1, Art7, Art2, Art5, Art3>>
Collections ==
  {c \in SeqsUpTo({Art1, Art2, Art3, Art4}, MaxArticles) :
     \A j, k \in DOMAIN c : j # k => c[j] # c[k]}
    \cup {FullCollection}

QueryWords == {Q_Verschluesselung, Q_personendaten, Q_von, Q_42}
\* the most words in a query
MaxQueryWords == 3
RECURSIVE JoinWords(_)
\* the words with a space between them
JoinWords(ws) ==
  IF ws = <<>> THEN <<>>
  ELSE IF Len(ws) = 1 THEN ws[1]
  ELSE ws[1] \o <<" ">> \o JoinWords(Tail(ws))
Queries == {JoinWords(ws) : ws \in SeqsUpTo(QueryWords, MaxQueryWords)}

\* the largest limit given
MaxLimit == 2
Limits == {Undefined} \cup {Some(n) : n \in 0..MaxLimit}

InitRetrieve ==
  /\ articles \in Collections
  /\ query \in Queries
  /\ limit \in Limits
  /\ context = <<>>
  /\ rpc = "call"
  /\ RefsIdle /\ ParseIdle /\ ServerIdle /\ PromptIdle /\ CleanIdle
  /\ ClientIdle /\ RenderIdle

CallRetrieveDsgContext ==
  /\ rpc = "call"
  /\ context' = retrieveDsgContext(articles, query, limit)
  /\ rpc' = "done"
  /\ UNCHANGED <<articles, query, limit, refVars, parseVars, req, envVars,
                 promptVars, cleanVars, client, render>>

NextRetrieve == CallRetrieveDsgContext

SpecRetrieve == InitRetrieve /\ [][NextRetrieve]_vars

---------------------------------------------------------------------------
(* createPrompt *)

RECURSIVE CollapseWs(_, _)
\* .replace(/\s+/g, ' ') from position i on
CollapseWs(t, i) ==
  IF i > Len(t) THEN <<>>
  ELSE IF IsSpace(t[i]) THEN <<" ">> \o CollapseWs(t, SkipWs(t, i))
  ELSE <<t[i]>> \o CollapseWs(t, i + 1)

\* an entry whose body is left as it is
contextEntry_Raw(a) ==
  a.id \o (IF a.heading # <<>> THEN <<" ", ndash, " ">> \o a.heading ELSE <<>>)
    \o <<":", " ">> \o a.text

\* `${a.id}${a.heading ? ` – ${a.heading}` : ''}: ${a.text.replace(/\s+/g, ' ').trim()}`
contextEntry(a) ==
  a.id \o (IF a.heading # <<>> THEN <<" ", ndash, " ">> \o a.heading ELSE <<>>)
    \o <<":", " ">> \o trim(CollapseWs(a.text, 1))

RECURSIVE join(_, _)
\* Array.prototype.join
join(parts, sep) ==
  IF parts = <<>> THEN <<>>
  ELSE IF Len(parts) = 1 THEN parts[1]
  ELSE parts[1] \o sep \o join(Tail(parts), sep)

\* "Kein zusätzlicher DSG-Kontext verfügbar."
S_KeinKontext ==
  <<"K", "e", "i", "n", " ", "z", "u", "s", auml, "t", "z", "l", "i",
    "c", "h", "e", "r", " ", "D", "S", "G", "-", "K", "o", "n", "t", "e",
    "x", "t", " ", "v", "e", "r", "f", uuml, "g", "b", "a", "r", ".">>

contextText(ctx) ==
  IF Len(ctx) > 0
    THEN join([k \in DOMAIN ctx |-> contextEntry(ctx[k])], <<NL, NL>>)
    ELSE S_KeinKontext

\* the template's text before 'Kontext aus DSG', as one character
PromptHead == "<Du bist ein Experte ... Art. 23 Abs. 1 DSG>"
\* the template's text from 'FORMATIERUNGSREGELN' on, as one character
PromptTail == "<FORMATIERUNGSREGELN ... usw.]>"
\* "Kontext aus DSG (alle relevanten Artikel):"
S_KontextAusDsg ==
  <<"K", "o", "n", "t", "e", "x", "t", " ", "a", "u", "s", " ", "D", "S",
    "G", " ", "(", "a", "l", "l", "e", " ", "r", "e", "l", "e", "v", "a",
    "n", "t", "e", "n", " ", "A", "r", "t", "i", "k", "e", "l", ")", ":">>
\* "Zu analysierender Text:"
S_ZuAnalysieren ==
  <<"Z", "u", " ", "a", "n", "a", "l", "y", "s", "i", "e", "r", "e", "n",
    "d", "e", "r", " ", "T", "e", "x", "t", ":">>
\* the double quotation mark
quote == "\""

createPrompt(uText, ctx) ==
  <<PromptHead, NL, NL>> \o S_KontextAusDsg \o <<NL>> \o contextText(ctx)
    \o <<NL, NL>> \o S_ZuAnalysieren \o <<NL, NL, quote>> \o uText
    \o <<quote, NL, NL, PromptTail>>

\* "Wir speichern "Kundendaten"."
U_Kunden ==
  <<"W", "i", "r", " ", "s", "p", "e", "i", "c", "h", "e", "r", "n", " ",
    "\"", "K", "u", "n", "d", "e", "n", "d", "a", "t", "e", "n", "\"",
    ".">>
\* "Zeile 1\n Zeile 2  "
U_Zeilen ==
  <<"Z", "e", "i", "l", "e", " ", "1", NL, " ", "Z", "e", "i", "l", "e",
    " ", "2", " ", " ">>

UserTexts == {<<>>, U_Kunden, U_Zeilen, F_Art5DSG}

InitPrompt ==
  /\ userText \in UserTexts
  /\ dsgContext \in Collections
  /\ prompt = <<>>
  /\ cpc = "call"
  /\ RefsIdle /\ ParseIdle /\ ServerIdle /\ RetrieveIdle /\ CleanIdle
  /\ ClientIdle /\ RenderIdle
  /\ articles = <<>>

CallCreatePrompt ==
  /\ cpc = "call"
  /\ prompt' = createPrompt(userText, dsgContext)
  /\ cpc' = "done"
  /\ UNCHANGED <<userText, dsgContext, refVars, parseVars, req, envVars,
                 articles, retrieveVars, cleanVars, client, render>>

NextPrompt == CallCreatePrompt

SpecPrompt == InitPrompt /\ [][NextPrompt]_vars

---------------------------------------------------------------------------
(* cleanMarkdown followed by the citation extractor *)

M_Bold == <<"*", "*">>
M_Under == <<"_">>
M_Fence == <<backtick, backtick, backtick>>
M_Hash == <<"#", " ">>
M_Blank == <<NL, NL, NL>>
M_Art5 == <<"A", "r", "t", ".", " ", "5">>
M_DSG == <<" ", "D", "S", "G">>

MdFragments ==
  {M_Bold, M_Under, M_Fence, M_Hash, M_Blank, M_Art5, M_DSG, F_Art5DSG}

\* the most fragments in a markdown text
MaxMdFragments == 4

MdTexts == {Flatten(fs) : fs \in SeqsUpTo(MdFragments, MaxMdFragments)}

InitClean ==
  /\ mdText \in MdTexts
  /\ cleaned = <<>>
  /\ rawRefs = <<>>
  /\ cleanRefs = <<>>
  /\ mpc = "call"
  /\ RefsIdle /\ ParseIdle /\ ServerIdle /\ RetrieveIdle /\ PromptIdle
  /\ ClientIdle /\ RenderIdle
  /\ articles = <<>>

CallCleanMarkdown ==
  /\ mpc = "call"
  /\ cleaned' = cleanMarkdown(mdText)
  /\ mpc' = "cleaned"
  /\ UNCHANGED <<mdText, rawRefs, cleanRefs, refVars, parseVars, req, envVars,
                 articles, retrieveVars, promptVars, client, render>>

\* the extractor on the text and on its cleaned version
CallExtractBoth ==
  /\ mpc = "cleaned"
  /\ rawRefs' = extractLegalReferences(mdText)
  /\ cleanRefs' = extractLegalReferences(cleaned)
  /\ mpc' = "done"
  /\ UNCHANGED <<mdText, cleaned, refVars, parseVars, req, envVars, articles,
                 retrieveVars, promptVars, client, render>>

NextClean ==
  \/ CallCleanMarkdown
  \/ CallExtractBoth

SpecClean == InitClean /\ [][NextClean]_vars

---------------------------------------------------------------------------
(* The server: password middleware and routes *)

\* "/api"
S_api == <<"/", "a", "p", "i">>
\* "/api/models"
PathModels == <<"/", "a", "p", "i", "/", "m", "o", "d", "e", "l", "s">>
\* "/api/auth/verify"
PathVerify ==
  <<"/", "a", "p", "i", "/", "a", "u", "t", "h", "/", "v", "e", "r", "i",
    "f", "y">>
\* "/api/analyze"
PathAnalyze == <<"/", "a", "p", "i", "/", "a", "n", "a", "l", "y", "z", "e">>
\* "/api/other": a path under /api that no route serves
PathOther == <<"/", "a", "p", "i", "/", "o", "t", "h", "e", "r">>
\* "/index.html": a path of the client
PathPage == <<"/", "i", "n", "d", "e", "x", ".", "h", "t", "m", "l">>

Paths == {PathModels, PathVerify, PathAnalyze, PathOther, PathPage}

\* process.env.APP_PASSWORD || 'mypassword'
APP_PASSWORD == "mypassword"
\* a password header or body field: absent (falsy), the password, another one
NoPassword == ""
Passwords == {NoPassword, APP_PASSWORD, "wrong"}

\* req.body.text: absent, not a string, or a string
NoText == [type |-> "undefined", value |-> <<>>]
TextInputs ==
  {NoText,
   [type |-> "number", value |-> <<"5">>],
   [type |-> "string", value |-> <<" ", NL>>],
   [type |-> "string", value |-> F_Art5DSG],
   [type |-> "string", value |-> Q_Verschluesselung]}

\* openRouterResponse.data?.choices?.[0]?.message?.content: absent, a string,
\* or a value that is no string (a list of content parts)
LlmReplies == {<<>>, P_Risk, P_Recommendations \o P_Short \o F_Art5DSG}
NoContent == [type |-> "undefined", value |-> <<>>]
Contents ==
  {NoContent, [type |-> "object", value |-> <<>>]}
    \cup {[type |-> "string", value |-> r] : r \in LlmReplies}

\* what the call of the model's API comes to: a reply with this content, or
\* an error
LlmOutcomes ==
  {[kind |-> "reply", content |-> c] : c \in Contents}
    \cup {[kind |-> k, content |-> NoContent] :
            k \in {"ECONNREFUSED", "response", "other"}}
NoOutcome == [kind |-> "none", content |-> NoContent]

\* the most requests the server handles
MaxRequests == 2
RequestIds == 1..MaxRequests

NoRequest ==
  [pc |-> "idle", path |-> <<>>, header |-> NoPassword, body |-> NoPassword,
   text |-> NoText,
   status |-> 0, sent |-> "nothing", result |-> <<>>, llmCalls |-> 0,
   prompt |-> <<>>, outcome |-> NoOutcome, responses |-> 0]

\* req.path.startsWith('/api')
startsWithApi(path) == MatchCS(path, 1, S_api)

\* req.headers['x-app-password'] || req.body?.password
providedPassword(r) == IF r.header # NoPassword THEN r.header ELSE r.body

\* !providedPassword || providedPassword !== APP_PASSWORD
rejected(password) == password = NoPassword \/ password # APP_PASSWORD

\* the middleware's decision: "next" or "401"
middlewareDecision(r) ==
  IF production /\ ~startsWithApi(r.path) THEN "next"
  ELSE IF r.path = PathModels \/ r.path = PathVerify THEN "next"
  ELSE IF startsWithApi(r.path) /\ rejected(providedPassword(r)) THEN "401"
  ELSE "next"

\* the models endpoint's check: a password header, when there is one, must be
\* the password
modelsRejected(r) == r.header # NoPassword /\ r.header # APP_PASSWORD

\* !text || typeof text !== 'string' || text.trim().length === 0
textMissing(t) ==
  \/ t.type = "undefined"
  \/ t.type = "string" /\ t.value = <<>>
  \/ t.type # "string"
  \/ Len(trim(t.value)) = 0

\* res.status(status).json(...), and the handler returns
Respond(i, status, sent, result) ==
  req' = [req EXCEPT ![i].pc = "done", ![i].status = status,
                     ![i].sent = sent, ![i].result = result,
                     ![i].responses = req[i].responses + 1]

\* a request arrives (only an analysis request carries a text)
Receive(i, path, header, body, t) ==
  /\ req[i].pc = "idle"
  /\ path # PathAnalyze => t = NoText
  /\ req' = [req EXCEPT ![i] = [NoRequest EXCEPT !.pc = "middleware",
                                  !.path = path, !.header = header,
                                  !.body = body, !.text = t]]
  /\ UNCHANGED <<envVars, articles, refVars, parseVars, retrieveVars, promptVars,
               cleanVars, client, render>>

passwordMiddleware(i) ==
  /\ req[i].pc = "middleware"
  /\ IF middlewareDecision(req[i]) = "401"
       THEN Respond(i, 401, "unauthorized", <<>>)
       ELSE req' = [req EXCEPT ![i].pc = "route"]
  /\ UNCHANGED <<envVars, articles, refVars, parseVars, retrieveVars, promptVars,
               cleanVars, client, render>>

\* POST /api/auth/verify
authVerify(i) ==
  /\ req[i].pc = "route"
  /\ req[i].path = PathVerify
  /\ IF rejected(providedPassword(req[i]))
       THEN Respond(i, 401, "unauthorized", <<>>)
       ELSE Respond(i, 200, "success", <<>>)
  /\ UNCHANGED <<envVars, articles, refVars, parseVars, retrieveVars, promptVars,
               cleanVars, client, render>>

\* GET /api/models
getModels(i) ==
  /\ req[i].pc = "route"
  /\ req[i].path = PathModels
  /\ IF modelsRejected(req[i])
       THEN Respond(i, 401, "unauthorized", <<>>)
       ELSE Respond(i, 200, "models", <<>>)
  /\ UNCHANGED <<envVars, articles, refVars, parseVars, retrieveVars, promptVars,
               cleanVars, client, render>>

\* an analysis whose context is what retrieveDsgContext returns for the text
analyzeCall_Ranked(i) ==
  /\ req[i].pc = "route"
  /\ req[i].path = PathAnalyze
  /\ IF textMissing(req[i].text)
       THEN Respond(i, 400, "error", <<>>)
     ELSE IF ~apiKeySet
       THEN Respond(i, 503, "error", <<>>)
     ELSE req' = [req EXCEPT ![i].pc = "llm",
                             ![i].prompt =
                               createPrompt(req[i].text.value,
                                            retrieveDsgContext(articles,
                                              req[i].text.value, Undefined)),
                             ![i].llmCalls = req[i].llmCalls + 1]
  /\ UNCHANGED <<envVars, articles, refVars, parseVars, retrieveVars, promptVars,
               cleanVars, client, render>>

\* an analysis that calls the model's API without looking for the API key
analyzeCall_NoKeyCheck(i) ==
  /\ req[i].pc = "route"
  /\ req[i].path = PathAnalyze
  /\ IF textMissing(req[i].text)
       THEN Respond(i, 400, "error", <<>>)
     ELSE req' = [req EXCEPT ![i].pc = "llm",
                             ![i].prompt =
                               createPrompt(req[i].text.value, articles),
                             ![i].llmCalls = req[i].llmCalls + 1]
  /\ UNCHANGED <<envVars, articles, refVars, parseVars, retrieveVars, promptVars,
               cleanVars, client, render>>

\* POST /api/analyze, up to the call of the model's API
analyzeCall(i) ==
  /\ req[i].pc = "route"
  /\ req[i].path = PathAnalyze
  /\ IF textMissing(req[i].text)
       THEN Respond(i, 400, "error", <<>>)
     ELSE IF ~apiKeySet
       THEN Respond(i, 503, "error", <<>>)
     ELSE req' = [req EXCEPT ![i].pc = "llm",
                             ![i].prompt =
                               createPrompt(req[i].text.value, articles),
                             ![i].llmCalls = req[i].llmCalls + 1]
  /\ UNCHANGED <<envVars, articles, refVars, parseVars, retrieveVars, promptVars,
               cleanVars, client, render>>

\* openRouterResponse.data?.choices?.[0]?.message?.content || ''
modelResponse(content) ==
  IF content.type = "undefined" THEN <<>> ELSE content.value

\* parseResponse(modelResponse) throws: response.match is no function unless
\* the response is a string
parseThrows(content) == content.type = "object"

\* the body sent with an assessment: the fields of parseResponse(modelResponse)
\* (a request's result holds modelResponse)
Assessments == [r \in LlmReplies |-> parseResponse(r)]

\* responses kept in one place: the result sent last replaces the result of
\* every assessment sent before
RespondTo_Shared(i, outcome, status, sent, result) ==
  req' = [j \in RequestIds |->
            IF j = i
              THEN [req[j] EXCEPT !.pc = "done", !.status = status,
                                  !.sent = sent, !.result = result,
                                  !.outcome = outcome,
                                  !.responses = req[j].responses + 1]
            ELSE IF req[j].sent = "assessment"
              THEN [req[j] EXCEPT !.result = result]
            ELSE req[j]]

\* the response and the outcome of the call in request i
RespondTo(i, outcome, status, sent, result) ==
  req' = [req EXCEPT ![i].pc = "done", ![i].status = status,
                     ![i].sent = sent, ![i].result = result,
                     ![i].outcome = outcome,
                     ![i].responses = req[i].responses + 1]

\* POST /api/analyze, from the return of the call on
analyzeReturn(i, outcome) ==
  /\ req[i].pc = "llm"
  /\ CASE outcome.kind = "reply" /\ ~parseThrows(outcome.content) ->
            RespondTo(i, outcome, 200, "assessment",
                      modelResponse(outcome.content))
       [] outcome.kind = "ECONNREFUSED" ->
            RespondTo(i, outcome, 503, "error", <<>>)
       [] outcome.kind = "response" ->
            RespondTo(i, outcome, 500, "error", <<>>)
       [] OTHER -> RespondTo(i, outcome, 500, "error", <<>>)
  /\ UNCHANGED <<envVars, articles, refVars, parseVars, retrieveVars, promptVars,
               cleanVars, client, render>>

\* a path no API route serves: the client's page in production, else 404
noRoute(i) ==
  /\ req[i].pc = "route"
  /\ req[i].path \notin {PathVerify, PathModels, PathAnalyze}
  /\ IF production
       THEN Respond(i, 200, "page", <<>>)
       ELSE Respond(i, 404, "notFound", <<>>)
  /\ UNCHANGED <<envVars, articles, refVars, parseVars, retrieveVars, promptVars,
               cleanVars, client, render>>

Init ==
  /\ req = [i \in RequestIds |-> NoRequest]
  /\ apiKeySet \in BOOLEAN
  /\ production \in BOOLEAN
  /\ registry = SWISS_LAW_URLS
  /\ articles \in {<<>>, <<Art1, Art2>>}
  /\ RefsIdle /\ ParseIdle /\ RetrieveIdle /\ PromptIdle /\ CleanIdle
  /\ ClientIdle /\ RenderIdle

Next ==
  \/ \E i \in RequestIds, path \in Paths, header \in Passwords,
        body \in Passwords, t \in TextInputs :
       Receive(i, path, header, body, t)
  \/ \E i \in RequestIds : passwordMiddleware(i)
  \/ \E i \in RequestIds : authVerify(i)
  \/ \E i \in RequestIds : getModels(i)
  \/ \E i \in RequestIds : analyzeCall(i)
  \/ \E i \in RequestIds, outcome \in LlmOutcomes : analyzeReturn(i, outcome)
  \/ \E i \in RequestIds : noRoute(i)

Spec == Init /\ [][Next]_vars

\* the steps of the handling of request i
Handle(i) ==
  \/ passwordMiddleware(i)
  \/ authVerify(i)
  \/ getModels(i)
  \/ analyzeCall(i)
  \/ \E outcome \in LlmOutcomes : analyzeReturn(i, outcome)
  \/ noRoute(i)

\* the request with the least id
FirstRequest == CHOOSE i \in RequestIds : \A j \in RequestIds : i <= j

\* the handling of one request, no other request arriving
NextLive ==
  \/ \E path \in Paths, header \in Passwords, body \in Passwords,
        t \in TextInputs :
       Receive(FirstRequest, path, header, body, t)
  \/ passwordMiddleware(FirstRequest)
  \/ authVerify(FirstRequest)
  \/ getModels(FirstRequest)
  \/ analyzeCall(FirstRequest)
  \/ \E outcome \in LlmOutcomes : analyzeReturn(FirstRequest, outcome)
  \/ noRoute(FirstRequest)

\* the server goes on with a request it has received, and the call of the
\* model's API comes to an end (axios' timeout of 120000 ms)
SpecLive == Init /\ [][NextLive]_vars /\ WF_vars(Handle(FirstRequest))
---------------------------------------------------------------------------
(* The client: login page, dashboard and the appPassword entry of
   localStorage *)

\* the passwords that can stand in localStorage
SavedPasswords == Passwords \ {NoPassword}

\* what the user types into the password field: a word, with or without white
\* space around it; password.trim() is the word
TypedInputs == {[word |-> w, padded |-> b] : w \in Passwords, b \in BOOLEAN}
trimmed(typed) == typed.word

\* what a fetch comes to: an answer of the server, or a failure (the fetch
\* throws, or the answer is an error that is no 401)
FetchOutcomes == {"answer", "failure"}

\* the most verifications of one saved password under way at once
MaxPending == 1

\* the last thing a handler did about the appPassword entry
NoEvent == [by |-> "none", pw |-> NoPassword, answer |-> "none", op |-> "keep"]
Event(by, pw, answer, op) == [by |-> by, pw |-> pw, answer |-> answer, op |-> op]

\* the answer to a request that carries pw in its header and its body
AnswerTo(pw, outcome) ==
  IF outcome = "failure" THEN "failure"
  ELSE IF rejected(providedPassword([header |-> pw, body |-> pw])) THEN "401"
  ELSE "success"

NoneVerifying == [pw \in SavedPasswords |-> 0]

\* the page is left: its pending requests are given up
Unloaded(c) ==
  [c EXCEPT !.loading = FALSE, !.login = NoPassword,
            !.verifying = NoneVerifying, !.analyze = NoPassword]

\* ProtectedRoute: the dashboard when a password is stored, else the login page
Dashboard(c) ==
  IF c.stored # NoPassword
    THEN [c EXCEPT !.page = "dashboard", !.dashPw = c.stored]
    ELSE [c EXCEPT !.page = "login", !.loading = FALSE]

InitClient ==
  /\ \E saved \in Passwords :
       client = [page |-> "closed", stored |-> saved, dashPw |-> NoPassword,
                 loading |-> FALSE, login |-> NoPassword,
                 verifying |-> NoneVerifying, analyze |-> NoPassword,
                 last |-> NoEvent, byLogin |-> FALSE]
  /\ RefsIdle /\ ParseIdle /\ ServerIdle /\ RetrieveIdle /\ PromptIdle /\ CleanIdle
  /\ RenderIdle
  /\ articles = <<>>

ClientUnchanged ==
  UNCHANGED <<refVars, parseVars, req, envVars, articles, retrieveVars,
              promptVars, cleanVars, render>>

\* the login page mounts (the page is opened, or the user goes back to it from
\* the dashboard): a saved password is verified
openLogin ==
  /\ client.page \in {"closed", "dashboard"}
  /\ client.stored # NoPassword => client.verifying[client.stored] < MaxPending
  /\ client' = [client EXCEPT
                  !.page = "login", !.loading = FALSE,
                  !.verifying = IF client.stored # NoPassword
                                  THEN [@ EXCEPT ![client.stored] = @ + 1]
                                  ELSE @]
  /\ ClientUnchanged

\* the dashboard is opened by its address
openDashboard ==
  /\ client.page = "closed"
  /\ client' = Dashboard(client)
  /\ ClientUnchanged

\* verifyPassword, from the answer of /api/auth/verify on
verifyReturn(pw, outcome) ==
  /\ client.verifying[pw] > 0
  /\ LET c == [client EXCEPT !.verifying[pw] = @ - 1]
         answer == AnswerTo(pw, outcome)
     IN  client' =
           IF answer = "success"
             THEN Dashboard([c EXCEPT
                               !.last = Event("verifyPassword", pw, answer, "keep")])
             ELSE [c EXCEPT !.stored = NoPassword, !.byLogin = FALSE,
                            !.last = Event("verifyPassword", pw, answer, "remove")]
  /\ ClientUnchanged

\* handleLogin, up to the request to /api/auth/verify
handleLogin(typed) ==
  /\ client.page = "login"
  /\ ~client.loading
  /\ client.login = NoPassword
  /\ client' =
       IF trimmed(typed) = NoPassword
         THEN [client EXCEPT
                 !.last = Event("handleLogin", NoPassword, "none", "keep")]
         ELSE [client EXCEPT !.loading = TRUE, !.login = trimmed(typed)]
  /\ ClientUnchanged

\* a handleLogin that stores the password whatever the answer is
loginReturn_StoreFirst(outcome) ==
  /\ client.login # NoPassword
  /\ LET pw == client.login
         answer == AnswerTo(pw, outcome)
         c == [client EXCEPT !.login = NoPassword, !.loading = FALSE,
                             !.stored = pw, !.byLogin = TRUE]
     IN  client' =
           IF answer = "success"
             THEN Dashboard([c EXCEPT
                               !.last = Event("handleLogin", pw, answer, "set")])
             ELSE [c EXCEPT !.last = Event("handleLogin", pw, answer, "keep")]
  /\ ClientUnchanged

\* handleLogin, from the answer on
loginReturn(outcome) ==
  /\ client.login # NoPassword
  /\ LET pw == client.login
         answer == AnswerTo(pw, outcome)
         c == [client EXCEPT !.login = NoPassword, !.loading = FALSE]
     IN  client' =
           IF answer = "success"
             THEN Dashboard([c EXCEPT
                               !.stored = pw, !.byLogin = TRUE,
                               !.last = Event("handleLogin", pw, answer, "set")])
             ELSE [c EXCEPT !.last = Event("handleLogin", pw, answer, "keep")]
  /\ ClientUnchanged

handleLogout ==
  /\ client.page = "dashboard"
  /\ client' = [client EXCEPT
                  !.stored = NoPassword, !.byLogin = FALSE, !.page = "login",
                  !.loading = FALSE,
                  !.last = Event("handleLogout", NoPassword, "none", "remove")]
  /\ ClientUnchanged

\* handleAnalyze, up to the request to /api/analyze
handleAnalyze ==
  /\ client.page = "dashboard"
  /\ client.dashPw # NoPassword
  /\ client.analyze = NoPassword
  /\ client' = [client EXCEPT !.analyze = client.dashPw]
  /\ ClientUnchanged

\* handleAnalyze, from the answer on: a 401 removes the entry and loads the
\* login page
analyzeAnswered(outcome) ==
  /\ client.analyze # NoPassword
  /\ LET pw == client.analyze
         answer == AnswerTo(pw, outcome)
     IN  client' =
           IF answer = "401"
             THEN [Unloaded(client) EXCEPT
                     !.stored = NoPassword, !.byLogin = FALSE, !.page = "login",
                     !.last = Event("handleAnalyze", pw, answer, "remove")]
             ELSE [client EXCEPT
                     !.analyze = NoPassword,
                     !.last = Event("handleAnalyze", pw, answer, "keep")]
  /\ ClientUnchanged

\* the tab is closed or loaded anew
closePage ==
  /\ client.page # "closed"
  /\ client' = [Unloaded(client) EXCEPT !.page = "closed"]
  /\ ClientUnchanged

NextClient ==
  \/ openLogin
  \/ openDashboard
  \/ \E pw \in SavedPasswords, outcome \in FetchOutcomes : verifyReturn(pw, outcome)
  \/ \E typed \in TypedInputs : handleLogin(typed)
  \/ \E outcome \in FetchOutcomes : loginReturn(outcome)
  \/ handleLogout
  \/ handleAnalyze
  \/ \E outcome \in FetchOutcomes : analyzeAnswered(outcome)
  \/ closePage

SpecClient == InitClient /\ [][NextClient]_vars
---------------------------------------------------------------------------
(* TextWithCitations: a text rendered with its citations as links *)

\* new RegExp(ref.text.replace(/[.*+?^${}()|[\]\\]/g, '\\$&'), 'gi') tried at
\* position i: the text of the reference stands there, letter for letter, in
\* any letter case
CitationPatternAt(t, i, ref) ==
  /\ i + Len(ref.text) - 1 <= Len(t)
  /\ toUpperCase(SubSeq(t, i, i + Len(ref.text) - 1)) = toUpperCase(ref.text)

RECURSIVE execCitation(_, _, _)
\* while ((match = pattern.exec(text)) !== null) matches.push({index, length, ref})
\* from position i on: leftmost first, each search starting where the last
\* match ended
execCitation(t, i, ref) ==
  LET starts == {j \in i..Len(t) : CitationPatternAt(t, j, ref)}
      first == CHOOSE j \in starts : \A l \in starts : j <= l
  IN  IF starts = {} THEN <<>>
      ELSE <<[index |-> first, length |-> Len(ref.text), ref |-> ref]>>
             \o execCitation(t, first + Len(ref.text), ref)

\* citationPatterns.forEach(...): the matches of every reference, reference by
\* reference
citationMatches(t, references) ==
  Flatten([k \in 1..Len(references) |-> execCitation(t, 1, references[k])])

RECURSIVE sortByIndex(_)
\* matches.sort((a, b) => a.index - b.index): by position, matches at the same
\* position in the order they had
sortByIndex(ms) ==
  IF ms = <<>> THEN <<>>
  ELSE LET k == CHOOSE j \in 1..Len(ms) :
                  /\ \A l \in 1..Len(ms) : ms[j].index <= ms[l].index
                  /\ \A l \in 1..(j - 1) : ms[l].index # ms[j].index
           rest == SubSeq(ms, 1, k - 1) \o SubSeq(ms, k + 1, Len(ms))
       IN  <<ms[k]>> \o sortByIndex(rest)

\* text.substring(from, to) pushed as it is
PlainPart(piece) == [kind |-> "text", text |-> piece, href |-> <<>>]

\* <a href={match.ref.url}>{citationText}<ExternalLinkIcon /></a>
LinkPart(piece, ref) == [kind |-> "link", text |-> piece, href |-> ref.url]

RECURSIVE forEachMatch(_, _, _)
\* matches.forEach(...) followed by the text after the last match; lastIndex is
\* the position after the last rendered match
forEachMatch(t, ms, lastIndex) ==
  IF ms = <<>>
    THEN IF lastIndex <= Len(t)
           THEN <<PlainPart(SubSeq(t, lastIndex, Len(t)))>> ELSE <<>>
    ELSE LET match == Head(ms)
             before == IF match.index > lastIndex
                         THEN <<PlainPart(SubSeq(t, lastIndex, match.index - 1))>>
                         ELSE <<>>
             citationText ==
               SubSeq(t, match.index, match.index + match.length - 1)
         IN  before \o <<LinkPart(citationText, match.ref)>>
               \o forEachMatch(t, Tail(ms), match.index + match.length)

TextWithCitations(t, references) ==
  IF Len(references) = 0 THEN <<PlainPart(t)>>
  ELSE LET parts == forEachMatch(t, sortByIndex(citationMatches(t, references)), 1)
       IN  IF Len(parts) > 0 THEN parts ELSE <<PlainPart(t)>>

\* "art. 5 dsg"
F_art5dsg == <<"a", "r", "t", ".", " ", "5", " ", "d", "s", "g">>

RenderFragments == {F_Art5DSG, F_art5dsg, F_Art28OR, F_space}

\* the most fragments in a rendered text and in an analysed reply
MaxRenderFragments == 3

\* result.summary, result.description, ..., rec: the texts rendered, and the
\* replies the references were extracted from
RenderTexts == {Flatten(fs) : fs \in SeqsUpTo(RenderFragments, MaxRenderFragments)}

InitRender ==
  /\ render \in [text : RenderTexts, reply : RenderTexts,
                 references : {<<>>}, parts : {<<>>}, pc : {"extract"}]
  /\ RefsIdle /\ ParseIdle /\ ServerIdle /\ RetrieveIdle /\ PromptIdle /\ CleanIdle
  /\ ClientIdle
  /\ articles = <<>>

RenderUnchanged ==
  UNCHANGED <<refVars, parseVars, req, envVars, articles, retrieveVars,
              promptVars, cleanVars, client>>

\* legalReferences of the result: extractLegalReferences(content)
ExtractForRender ==
  /\ render.pc = "extract"
  /\ render' = [render EXCEPT !.references = extractLegalReferences(render.reply),
                              !.pc = "render"]
  /\ RenderUnchanged

\* <TextWithCitations text={...} references={result.legalReferences || []} />
RenderTextWithCitations ==
  /\ render.pc = "render"
  /\ render' = [render EXCEPT !.parts = TextWithCitations(render.text, render.references),
                              !.pc = "done"]
  /\ RenderUnchanged

NextRender ==
  \/ ExtractForRender
  \/ RenderTextWithCitations

SpecRender == InitRender /\ [][NextRender]_vars
---------------------------------------------------------------------------
(* Properties *)

\* lit stands somewhere in t
Contains(t, lit) == \E i \in 1..Len(t) : MatchCS(t, i, lit)
\* lit stands somewhere in t, in any letter case
ContainsCI(t, lit) == \E i \in 1..Len(t) : MatchCI(t, i, lit)
\* t ends in suffix
EndsWith(t, suffix) ==
  /\ Len(suffix) <= Len(t)
  /\ SubSeq(t, Len(t) - Len(suffix) + 1, Len(t)) = suffix
\* the elements of a sequence
Range(seq) == {seq[k] : k \in DOMAIN seq}

\* the request carries the password, in its header or in its body
carriesPassword(r) == r.header = APP_PASSWORD \/ r.body = APP_PASSWORD

\* C1: a request to a path under /api that does not carry the password is
\* answered 401, is never sent the model list and causes no call of the
\* model's API.
C1_PasswordGate ==
  \A i \in RequestIds :
    (req[i].pc # "idle" /\ startsWithApi(req[i].path)
       /\ ~carriesPassword(req[i]))
      => /\ req[i].llmCalls = 0
         /\ req[i].sent # "models"
         /\ req[i].pc = "done" => req[i].status = 401

\* the levels that stand after a RISK_LEVEL: label at position i, white space
\* set aside
LevelsAfterLabel(t, i) ==
  {k \in DOMAIN riskLevels :
     /\ MatchCI(t, i, R_Label)
     /\ \E j \in (i + Len(R_Label))..Len(t) :
          /\ \A w \in (i + Len(R_Label))..(j - 1) : IsSpace(t[w])
          /\ MatchCI(t, j, riskLevels[k])}
LabelledPositions(t) == {i \in 1..Len(t) : LevelsAfterLabel(t, i) # {}}
FirstLabelled(t) ==
  CHOOSE i \in LabelledPositions(t) : \A j \in LabelledPositions(t) : i <= j

\* C2: riskLevel is one of LOW, MEDIUM, HIGH, UNKNOWN; it is UNKNOWN exactly
\* when no RISK_LEVEL: label is followed (after optional white space) by a
\* level in any letter case, and else the level, in upper case, of the first
\* such label.
C2_RiskLevel ==
  ppc = "done" =>
    /\ parsed.riskLevel \in {S_LOW, S_MEDIUM, S_HIGH, S_UNKNOWN}
    /\ parsed.riskLevel = S_UNKNOWN <=> LabelledPositions(response) = {}
    /\ LabelledPositions(response) # {} =>
         \E k \in LevelsAfterLabel(response, FirstLabelled(response)) :
           parsed.riskLevel = riskLevels[k]

\* a reply with two labelled levels, the first written in lower case
C2_Witness ==
  /\ ppc = "done"
  /\ Cardinality(LabelledPositions(response)) = 2
  /\ parsed.riskLevel = S_LOW
  /\ ~Contains(response, S_LOW)

\* the measures section as the second tier reads it, or no lines
Tier2Of(t) ==
  IF IsDefined(massnahmenOf(t)) /\ Val(massnahmenOf(t)) # <<>>
    THEN tier2(Val(massnahmenOf(t))) ELSE <<>>

\* C3: the recommendations list has at least one entry; when all three tiers
\* yield nothing it is the single placeholder entry.
C3_NeverEmpty ==
  ppc = "done" =>
    /\ Len(parsed.recommendations) >= 1
    /\ (tier1(response) = <<>> /\ Tier2Of(response) = <<>>
          /\ tier3(response) = <<>>)
         => parsed.recommendations = <<S_NoRecommendations>>

\* a reply with a recommendations section whose only line is too short
C3_Witness ==
  /\ ppc = "done"
  /\ response = P_Empfehlungen \o P_Short
  /\ parsed.recommendations = <<S_NoRecommendations>>

\* the citation matches of the text, of every grammar
Matches(t) ==
  UNION {Range(ExecAll(t, 1, patterns[g])) : g \in DOMAIN patterns}

\* the registry keys, whatever their letter case
resolves(law) ==
  \E key \in RegistryKeys : key = law \/ key = toUpperCase(law)

\* C4: every returned reference comes from a citation match whose law token
\* resolves and has a non-empty url; a match whose token does not resolve is
\* not returned; a text with no citation match gives the empty list.
C4_OnlyResolved ==
  xpc = "done" =>
    /\ \A k \in DOMAIN refs :
         /\ refs[k].url # <<>>
         /\ resolves(refs[k].law)
         /\ \E m \in Matches(text) :
              m.text = refs[k].text /\ m.law = refs[k].law
    /\ \A m \in Matches(text) :
         ~resolves(m.law) => \A k \in DOMAIN refs : refs[k].text # m.text
    /\ Matches(text) = {} => refs = <<>>

\* a text with a resolved and an unresolved citation
C4_Witness ==
  /\ xpc = "done"
  /\ \E m \in Matches(text) : ~resolves(m.law)
  /\ Len(refs) >= 1

\* C5: no two returned references have the same text: a citation that the
\* text holds several times is returned once.
C5_UniqueText ==
  xpc = "done" =>
    /\ \A j, k \in DOMAIN refs : j # k => refs[j].text # refs[k].text
    /\ \A m \in Matches(text) :
         resolves(m.law) =>
           Cardinality({k \in DOMAIN refs : refs[k].text = m.text}) = 1

\* a text that holds the same citation twice
C5_Witness ==
  /\ xpc = "done"
  /\ Len(AllReferences(text)) > Len(refs)
  /\ \E i, j \in 1..Len(text) :
       i # j /\ MatchCS(text, i, F_Art5DSG) /\ MatchCS(text, j, F_Art5DSG)

\* the references to Art. 5 DSG
Art5Refs == {k \in DOMAIN refs : refs[k].law = S_DSG /\ refs[k].article = <<"5">>}
\* "#art_5"
S_art_5 == S_anchor \o <<"5">>

\* C6 as stated: for a text containing "Art. 5 DSG" the result holds exactly
\* one reference whose law is "DSG" and whose article is "5", and its url
\* ends in "#art_5".
C6_ExactlyOneArt5 ==
  (xpc = "done" /\ Contains(text, F_Art5DSG)) =>
    /\ Cardinality(Art5Refs) = 1
    /\ \A k \in Art5Refs : EndsWith(refs[k].url, S_art_5)

\* C6 amended: for a text containing "Art. 5 DSG" the result holds exactly
\* one reference whose text is "Art. 5 DSG"; its law is "DSG", its article
\* is "5" and its url ends in "#art_5", as does the url of every other
\* reference to the article (the same citation written another way, or with
\* a paragraph, is a reference of its own).
C6_OneForTheText ==
  (xpc = "done" /\ Contains(text, F_Art5DSG)) =>
    /\ Cardinality({k \in DOMAIN refs : refs[k].text = F_Art5DSG}) = 1
    /\ \A k \in DOMAIN refs :
         refs[k].text = F_Art5DSG => k \in Art5Refs
    /\ \A k \in Art5Refs : EndsWith(refs[k].url, S_art_5)

\* a text with "Art. 5 DSG" and the same article cited another way
C6_Witness ==
  /\ xpc = "done"
  /\ Contains(text, F_Art5DSG)
  /\ Cardinality(Art5Refs) >= 2

\* the base URL of the law a token names
BaseUrlOfLaw(law) ==
  LET u == toUpperCase(law)
  IN  CASE u \in {S_DSG, toUpperCase(S_Datenschutzgesetz)} -> URL_DSG
        [] u \in {S_ZGB, toUpperCase(S_Zivilgesetzbuch)} -> URL_ZGB
        [] u \in {S_OR, toUpperCase(S_Obligationenrecht)} -> URL_OR
        [] u \in {S_BV, toUpperCase(S_Bundesverfassung)} -> URL_BV
        [] u \in {toUpperCase(S_StGB), toUpperCase(S_Strafgesetzbuch)} -> URL_StGB

\* C7: a reference's url is the base URL of its law, then "#art_", then the
\* article; a paragraph is recorded and leaves the url as it is; "Art. 5 DSG"
\* gives https://www.fedlex.admin.ch/eli/cc/2022/491/de#art_5.
C7_UrlOfArticle ==
  xpc = "done" =>
    /\ \A k \in DOMAIN refs :
         refs[k].url = <<BaseUrlOfLaw(refs[k].law)>> \o S_anchor \o refs[k].article
    /\ \A m \in Matches(text) :
         (resolves(m.law) /\ IsDefined(m.paragraph)) =>
           \E k \in DOMAIN refs :
             refs[k].text = m.text /\ refs[k].paragraph = m.paragraph
    /\ text = F_Art5DSG =>
         /\ Len(refs) = 1
         /\ refs[1].url =
              <<"https://www.fedlex.admin.ch/eli/cc/2022/491/de",
                "#", "a", "r", "t", "_", "5">>

\* a text with a citation that names a paragraph, and one that does not
C7_Witness ==
  /\ xpc = "done"
  /\ \E k \in DOMAIN refs : refs[k].paragraph = Some(<<"2">>)
  /\ \E k \in DOMAIN refs : refs[k].paragraph = Undefined

\* "(1) Verschlüsselung der Daten: weil sensibel (Art. 8 DSG)"
S_Example == SubSeq(P_Paren, 1, Len(P_Paren) - 1)
\* "weil sensibel (Art. 8 DSG)"
S_ExampleAdvice == SubSeq(P_Paren, 32, Len(P_Paren) - 1)

\* C8: for a reply without recommendations section whose measures section
\* holds the line "(1) Verschlüsselung der Daten: weil sensibel (Art. 8 DSG)",
\* the recommendations hold "weil sensibel (Art. 8 DSG)".
C8_MeasureLine ==
  (/\ ppc = "done"
   /\ ~ContainsCI(response, S_EMPFEHLUNGEN)
   /\ IsDefined(parsed.massnahmen)
   /\ S_Example \in Range(split(Val(parsed.massnahmen), NL)))
    => S_ExampleAdvice \in Range(parsed.recommendations)

\* C9 as stated: whichever tier produced them, no returned recommendation is
\* 10 characters or shorter or a bare parenthesized number.
C9_NoNoiseAnyTier ==
  ppc = "done" =>
    \A k \in DOMAIN parsed.recommendations :
      /\ Len(parsed.recommendations[k]) > MinLength
      /\ ~isBareNumber(parsed.recommendations[k])

\* C9 amended: recommendations of the first tier (the EMPFEHLUNGEN section)
\* are longer than 10 characters and no bare parenthesized numbers, those of
\* the second tier (the measures section) are longer than 10 characters; the
\* third tier (the old RECOMMENDATIONS label) keeps every non-empty line.
C9_NoNoiseByTier ==
  ppc = "done" =>
    /\ tier1(response) # <<>> =>
         \A k \in DOMAIN parsed.recommendations :
           /\ Len(parsed.recommendations[k]) > MinLength
           /\ ~isBareNumber(parsed.recommendations[k])
    /\ (tier1(response) = <<>> /\ Tier2Of(response) # <<>>) =>
         \A k \in DOMAIN parsed.recommendations :
           Len(parsed.recommendations[k]) > MinLength
    /\ \A k \in DOMAIN parsed.recommendations :
         Len(parsed.recommendations[k]) > 0

\* a recommendations section with a bare number and a short line, which are
\* dropped, and a line that is kept
C9_Witness ==
  /\ ppc = "done"
  /\ MatchCS(response, 1, P_Empfehlungen)
  /\ Contains(response, P_Number) \/ Contains(response, P_Short)
  /\ Len(parsed.recommendations) = 1
  /\ tier1(response) = parsed.recommendations

\* the first of the lists that is not empty, or the empty list
FirstNonEmpty(lists) ==
  IF \E k \in DOMAIN lists : lists[k] # <<>>
    THEN lists[CHOOSE k \in DOMAIN lists :
                 lists[k] # <<>> /\ \A j \in 1..(k - 1) : lists[j] = <<>>]
    ELSE <<>>

\* C10: the returned list is the output of the first tier, in the order
\* EMPFEHLUNGEN section, measures section, RECOMMENDATIONS label, that yields
\* an entry, whatever the later tiers would yield.
C10_FallbackChain ==
  ppc = "done" =>
    LET first == FirstNonEmpty(<<tier1(response), Tier2Of(response),
                                 tier3(response)>>)
    IN  parsed.recommendations =
          IF first = <<>> THEN <<S_NoRecommendations>> ELSE first

\* a reply for which the first and the third tier both yield entries, and
\* different ones
C10_Witness ==
  /\ ppc = "done"
  /\ tier1(response) # <<>>
  /\ tier3(response) # <<>>
  /\ tier1(response) # tier3(response)
  /\ parsed.recommendations = tier1(response)
C12_ContractSections ==
  ppc = "done" =>
    \A su \in SummaryBodies, de \in DescriptionBodies,
       br \in BruttorisikenBodies, ma \in MassnahmenBodies,
       ne \in NettorisikenBodies, er \in ErgebnisBodies :
      response = ContractReply(su, de, br, ma, ne, er) =>
        /\ parsed.summary = su.clean
        /\ parsed.description = Some(de.clean)
        /\ parsed.bruttorisiken = Some(br.clean)
        /\ parsed.massnahmen = Some(ma.clean)
        /\ parsed.nettorisiken = Some(ne.clean)
        /\ parsed.ergebnis = Some(er.clean)
\* the parser's result for a reply without any label
Defaults(t) ==
  [summary |-> S_NoSummary,
   riskLevel |-> S_UNKNOWN,
   analysis |-> t,
   recommendations |-> <<S_NoRecommendations>>,
   legalReferences |-> <<>>,
   description |-> Undefined,
   bruttorisiken |-> Undefined,
   massnahmen |-> Undefined,
   nettorisiken |-> Undefined,
   ergebnis |-> Undefined]

\* C13: a reply that lacks a label still has a result: the summary is
\* 'Keine Zusammenfassung vorhanden.' without a summary label, the risk level
\* UNKNOWN without a risk label, and a sub-section whose label is absent is
\* undefined; the empty reply gives these defaults, the placeholder
\* recommendation and no legal references.
C13_Defaults ==
  ppc = "done" =>
    /\ (~ContainsCI(response, S_SUMMARY \o <<":">>)
          /\ ~ContainsCI(response, S_ZUSAMMENFASSUNG \o <<":">>))
         => parsed.summary = S_NoSummary
    /\ ~ContainsCI(response, S_RISK_LEVEL \o <<":">>)
         => parsed.riskLevel = S_UNKNOWN
    /\ ~ContainsCI(response, S_BESCHREIBUNG)
         => parsed.description = Undefined
    /\ (~ContainsCI(response, S_POTENTIELL)
          \/ ~ContainsCI(response, S_BRUTTORISIKEN))
         => parsed.bruttorisiken = Undefined
    /\ (~ContainsCI(response, S_GEPLANTE)
          \/ ~ContainsCI(response, S_MASSNAHMEN))
         => parsed.massnahmen = Undefined
    /\ (~ContainsCI(response, S_VERBLEIBENDE)
          \/ ~ContainsCI(response, S_NETTORISIKEN))
         => parsed.nettorisiken = Undefined
    /\ ~ContainsCI(response, S_ERGEBNIS \o <<":">>)
         => parsed.ergebnis = Undefined
    /\ response = <<>> => parsed = Defaults(<<>>)

\* a reply with a risk label and a measures section, and no other label
C13_Witness ==
  /\ ppc = "done"
  /\ response = P_Risk \o P_Massnahmen \o P_Letter
  /\ parsed.summary = S_NoSummary
  /\ parsed.riskLevel = S_HIGH
  /\ IsDefined(parsed.massnahmen)
  /\ parsed.description = Undefined
  /\ parsed.ergebnis = Undefined
\* the articles with a score above 0, by descending score and, for equal
\* scores, in the order of the collection, cut to the first n
RankedBy(score, n) ==
  LET sc == score
      scored == {i \in DOMAIN articles : sc[i] > 0}
      precedes(j, i) == sc[j] > sc[i] \/ (sc[j] = sc[i] /\ j < i)
      rank == [i \in scored |-> 1 + Cardinality({j \in scored : precedes(j, i)})]
      m == IF Cardinality(scored) < n THEN Cardinality(scored) ELSE n
  IN  [k \in 1..m |-> articles[CHOOSE i \in scored : rank[i] = k]]

\* the limit given, or 5
LimitGiven == IF limit = Undefined THEN 5 ELSE limit[1]

\* the query's tokens found in an article, each occurrence in the query
\* counted
OccurrenceScore ==
  LET queryTokens == tokenize(query)
  IN  [i \in DOMAIN articles |->
         LET articleTokens == TokenSet(tokenize(articles[i].text))
         IN  Cardinality({k \in DOMAIN queryTokens :
                            queryTokens[k] \in articleTokens})]

\* the query's tokens found in an article, each token counted once
DistinctScore ==
  LET queryTokens == TokenSet(tokenize(query))
  IN  [i \in DOMAIN articles |->
         Cardinality(queryTokens \cap TokenSet(tokenize(articles[i].text)))]

\* C14: retrieveDsgContext returns the articles whose score is above 0, by
\* descending score, equal scores in the order of the collection, cut to the
\* first limit entries (5 by default); the result is empty for a query
\* without tokens or an empty collection; for the query
\* "Verschlüsselung personendaten" and limit 2 an article with both tokens
\* comes before one with one token.
C14_RankedContext ==
  rpc = "done" =>
    /\ context = RankedBy(OccurrenceScore, LimitGiven)
    /\ (tokenize(query) = <<>> \/ articles = <<>>) => context = <<>>
    /\ (/\ query = Q_Verschluesselung \o <<" ">> \o Q_personendaten
        /\ limit = Some(2)
        /\ articles = <<Art2, Art1>>)
         => context = <<Art1, Art2>>

\* six articles of the collection have a score and no limit is given: the
\* first five are returned, and not in the order of the collection
C14_Witness ==
  /\ rpc = "done"
  /\ articles = FullCollection
  /\ limit = Undefined
  /\ Cardinality({i \in DOMAIN articles : OccurrenceScore[i] > 0}) = 6
  /\ Len(context) = 5
  /\ context[1] = Art1

\* C15: an article's score is the number of distinct tokens of the query in
\* the article's token set: a token repeated in the query changes no score and
\* no ranking.
C15_DistinctTokens ==
  rpc = "done" => context = RankedBy(DistinctScore, LimitGiven)
\* "Verschlüsselung von Personendaten"
E_Text1 ==
  <<"V", "e", "r", "s", "c", "h", "l", uuml, "s", "s", "e", "l", "u",
    "n", "g", " ", "v", "o", "n", " ", "P", "e", "r", "s", "o", "n", "e",
    "n", "d", "a", "t", "e", "n">>
\* "Personendaten schützen"
E_Text2 ==
  <<"P", "e", "r", "s", "o", "n", "e", "n", "d", "a", "t", "e", "n", " ",
    "s", "c", "h", uuml, "t", "z", "e", "n">>

\* an article's body with every run of white space made one space
ExpectedBody(a) ==
  CASE a.text = A_Text1 -> E_Text1
    [] a.text = A_Text2 -> E_Text2
    [] OTHER -> a.text

\* what the prompt holds between the template's head and tail, for a list of
\* context entries
Embedded(entries) ==
  S_KontextAusDsg \o <<NL>>
    \o (IF entries = <<>> THEN S_KeinKontext
        ELSE entries[1]
               \o Flatten([k \in 1..(Len(entries) - 1) |->
                                <<NL, NL>> \o entries[k + 1]]))
    \o <<NL, NL>> \o S_ZuAnalysieren \o <<NL, NL, quote>> \o userText
    \o <<quote, NL>>

\* C16 as stated: the prompt holds every context article as
\* '<id> – <heading>: <body>', the entries in the order given with a blank line
\* between them, or 'Kein zusätzlicher DSG-Kontext verfügbar.' for an empty
\* list, and the user's text unchanged between double quotation marks.
C16_EveryEntryWithHeading ==
  cpc = "done" =>
    Contains(prompt,
             Embedded([k \in DOMAIN dsgContext |->
                         dsgContext[k].id \o <<" ", ndash, " ">>
                           \o dsgContext[k].heading \o <<":", " ">>
                           \o ExpectedBody(dsgContext[k])]))

\* C16 amended: as stated, with the entry of an article whose heading is
\* empty being '<id>: <body>'.
C16_PromptEmbeds ==
  cpc = "done" =>
    Contains(prompt,
             Embedded([k \in DOMAIN dsgContext |->
                         dsgContext[k].id
                           \o (IF dsgContext[k].heading = <<>> THEN <<>>
                               ELSE <<" ", ndash, " ">> \o dsgContext[k].heading)
                           \o <<":", " ">> \o ExpectedBody(dsgContext[k])]))

\* a prompt for two articles, one without heading, both with white space to
\* collapse, and a user text with quotation marks of its own
C16_Witness ==
  /\ cpc = "done"
  /\ dsgContext = <<Art1, Art2>>
  /\ userText = U_Kunden
  /\ Contains(prompt, A_Id2 \o <<":", " ">> \o E_Text2)
  /\ Contains(prompt, <<quote>> \o U_Kunden \o <<quote>>)

\* C17: the citation extractor returns the same set of references for a text
\* and for its markdown-cleaned version.
C17_SameAfterCleaning ==
  mpc = "done" => Range(rawRefs) = Range(cleanRefs)

\* C18: the legalReferences field of parseResponse's result is the citation
\* extractor's result for the raw reply as a whole, whatever sections the reply
\* has and whatever the other fields hold.
C18_ReferencesOfRawReply ==
  ppc = "done" => parsed.legalReferences = extractLegalReferences(response)

\* a reply that cites an article outside its summary
C18_Witness ==
  /\ ppc = "done"
  /\ Contains(response, F_Art5DSG)
  /\ ~Contains(parsed.summary, F_Art5DSG)
  /\ Len(parsed.legalReferences) = 1
  /\ parsed.legalReferences[1].text = F_Art5DSG

\* the response to a request, from the request, the outcome of its own call of
\* the model's API and the server's configuration
ResponseFor(r) ==
  IF middlewareDecision(r) = "401" THEN <<401, "unauthorized", <<>>>>
  ELSE IF r.path = PathVerify
    THEN IF rejected(providedPassword(r))
           THEN <<401, "unauthorized", <<>>>> ELSE <<200, "success", <<>>>>
  ELSE IF r.path = PathModels
    THEN IF modelsRejected(r)
           THEN <<401, "unauthorized", <<>>>> ELSE <<200, "models", <<>>>>
  ELSE IF r.path = PathAnalyze
    THEN IF textMissing(r.text) THEN <<400, "error", <<>>>>
         ELSE IF ~apiKeySet THEN <<503, "error", <<>>>>
         ELSE IF r.outcome.kind = "ECONNREFUSED" THEN <<503, "error", <<>>>>
         ELSE IF r.outcome.kind = "reply" /\ r.outcome.content.type # "object"
           THEN <<200, "assessment", modelResponse(r.outcome.content)>>
         ELSE <<500, "error", <<>>>>
  ELSE IF production THEN <<200, "page", <<>>>>
  ELSE <<404, "notFound", <<>>>>

\* C19: however the handling of concurrent requests interleaves, the law
\* registry and the article collection keep their values of startup, a step
\* of one request leaves every other request as it is, and the response to a
\* request is determined by the request and the outcome of its own call of the
\* model's API.
C19_Isolation ==
  /\ [](/\ registry = SWISS_LAW_URLS
        /\ \A i \in RequestIds :
             req[i].pc = "done" =>
               <<req[i].status, req[i].sent, req[i].result>>
                 = ResponseFor(req[i]))
  /\ [][/\ registry' = registry
        /\ articles' = articles
        /\ \A i, j \in RequestIds :
             (i # j /\ req'[i] # req[i]) => req'[j] = req[j]]_vars

\* two analyses of the same text under way at once: one is answered with its
\* assessment while the other's call has not returned
C19_Witness ==
  /\ articles # <<>>
  /\ \E i, j \in RequestIds :
       /\ req[i].pc = "llm"
       /\ req[j].pc = "done" /\ req[j].sent = "assessment"
       /\ req[j].result # <<>>
       /\ req[i].prompt = req[j].prompt

\* a valid analysis request that carries the password
authorizedAnalysis(r) ==
  /\ r.pc = "done"
  /\ r.path = PathAnalyze
  /\ carriesPassword(r) /\ ~rejected(providedPassword(r))
  /\ ~textMissing(r.text)

\* C20: an authorized, valid analysis request whose call of the model's API
\* returns is answered 200 with an assessment, whatever the reply's content;
\* it is answered with an error only for a failure outside parsing: 503 for a
\* missing API key or a refused connection, 500 for an upstream error response
\* or any other failure of the call.
C20_AnyReplyGives200 ==
  \A i \in RequestIds :
    authorizedAnalysis(req[i]) =>
      /\ req[i].outcome.kind = "reply" =>
           /\ req[i].status = 200
           /\ req[i].sent = "assessment"
           /\ Assessments[req[i].result].analysis = req[i].result
           /\ Assessments[req[i].result].riskLevel
                \in {S_LOW, S_MEDIUM, S_HIGH, S_UNKNOWN}
           /\ Len(Assessments[req[i].result].recommendations) >= 1
      /\ req[i].status # 200 =>
           \/ req[i].status = 503
                /\ (~apiKeySet \/ req[i].outcome.kind = "ECONNREFUSED")
           \/ req[i].status = 500
                /\ req[i].outcome.kind \in {"response", "other"}

\* the abbreviations of the five laws, in upper case
Abbreviations == {S_DSG, S_ZGB, S_OR, S_BV, toUpperCase(S_StGB)}

\* C21: a citation whose law is one of the five abbreviations, written in any
\* letter case, resolves to that law's URL, and the reference's law field is
\* the token as the text writes it.
C21_AnyLetterCase ==
  xpc = "done" =>
    \A m \in Matches(text) :
      toUpperCase(m.law) \in Abbreviations =>
        \E k \in DOMAIN refs :
          /\ refs[k].text = m.text
          /\ refs[k].law = m.law
          /\ refs[k].url[1] = BaseUrlOfLaw(m.law)

\* the grammar that finds a citation with this text
GrammarOf(t, citation) ==
  CHOOSE g \in DOMAIN patterns :
    \E m \in Range(ExecAll(t, 1, patterns[g])) : m.text = citation
\* where the first match with this text starts
FirstStart(t, citation) ==
  LET starts == {m.end - Len(m.text) : m \in {n \in Matches(t) : n.text = citation}}
  IN  CHOOSE p \in starts : \A q \in starts : p <= q

\* C22: the returned references are in grammar-then-position order: those of
\* the DSG grammar first, then ZGB, OR, BV, StGB, and within a grammar in the
\* order in which their texts first occur; a citation that occurs several
\* times stands where its first occurrence puts it.
C22_GrammarThenPosition ==
  xpc = "done" =>
    \A j, k \in DOMAIN refs :
      j < k =>
        LET gj == GrammarOf(text, refs[j].text)
            gk == GrammarOf(text, refs[k].text)
        IN  \/ gj < gk
            \/ /\ gj = gk
               /\ FirstStart(text, refs[j].text) < FirstStart(text, refs[k].text)

\* a text whose first citation is returned last, and that repeats a citation
C22_Witness ==
  /\ xpc = "done"
  /\ text = F_Art28OR \o F_Art5DSG \o F_Art28OR
  /\ Len(refs) = 2
  /\ refs[1].text = F_Art5DSG
  /\ refs[2].text = F_Art28OR

\* the context of a prompt that embeds every article of the collection
WholeContext ==
  IF articles = <<>> THEN S_KeinKontext
  ELSE Flatten([k \in DOMAIN articles |->
                  (IF k = 1 THEN <<>> ELSE <<NL, NL>>)
                    \o articles[k].id
                    \o (IF articles[k].heading = <<>> THEN <<>>
                        ELSE <<" ", ndash, " ">> \o articles[k].heading)
                    \o <<":", " ">> \o ExpectedBody(articles[k])])

\* C23: the prompt of an analysis embeds the whole article collection as its
\* context, whatever the submitted text: what retrieveDsgContext would select
\* for the text, and its limit, have no part in it.
C23_WholeCollection ==
  LET start == <<PromptHead, NL, NL>> \o S_KontextAusDsg \o <<NL>> \o WholeContext
                 \o <<NL, NL>> \o S_ZuAnalysieren \o <<NL, NL, quote>>
  IN  \A i \in RequestIds :
        req[i].llmCalls > 0 =>
          MatchCS(req[i].prompt, 1, start \o req[i].text.value \o <<quote>>)

\* an analysis of a text for which retrieveDsgContext selects one of the two
\* articles
C23_Witness ==
  \E i \in RequestIds :
    /\ req[i].llmCalls > 0
    /\ articles = <<Art1, Art2>>
    /\ retrieveDsgContext(articles, req[i].text.value, Undefined) = <<Art1>>
    /\ Contains(req[i].prompt, A_Id2 \o <<":", " ">> \o E_Text2)

\* C24: the summary is never empty: it is extracted text that is not empty, or
\* the placeholder 'Keine Zusammenfassung vorhanden.'; a summary label with a
\* body of white space only gives the placeholder.
C24_SummaryNeverEmpty ==
  ppc = "done" =>
    /\ parsed.summary # <<>>
    /\ response \in {Y_Summary \o F_space, Y_Zusammenfassung \o F_space \o P_Blank}
         => parsed.summary = S_NoSummary

\* the password check of the middleware, for a request's header and body
passwordAccepted(r) ==
  \/ r.header = APP_PASSWORD
  \/ r.header = NoPassword /\ r.body = APP_PASSWORD
\* the text check
textAccepted(r) ==
  r.text.type = "string" /\ \E k \in DOMAIN r.text.value : ~IsSpace(r.text.value[k])

\* what the checks come to for request r, whatever its state
checksInOrder(r) ==
  /\ r.responses <= 1
  /\ r.pc = "done" <=> r.responses = 1
  /\ r.path = PathAnalyze =>
       /\ r.llmCalls <= 1
       /\ r.llmCalls = 1 =>
            passwordAccepted(r) /\ textAccepted(r) /\ apiKeySet
       /\ r.pc = "done" =>
            /\ ~passwordAccepted(r) => r.status = 401
            /\ (passwordAccepted(r) /\ ~textAccepted(r)) => r.status = 400
            /\ (passwordAccepted(r) /\ textAccepted(r) /\ ~apiKeySet)
                 => r.status = 503
            /\ (r.status \in {401, 400} \/ ~apiKeySet) => r.llmCalls = 0
received == req[FirstRequest].pc # "idle"
answered == req[FirstRequest].pc = "done"

C26_StoredUntilRejected ==
  [][(client.byLogin /\ client'.stored # client.stored) =>
       \/ client'.last.by = "handleLogout"
       \/ client'.last.answer = "401" /\ client'.last.pw = client.stored]_vars

\* C27: the appPassword entry is written by handleLogin only, after
\* /api/auth/verify answered success for the value written; a login attempt
\* that is rejected or fails stores nothing; a saved password that the server
\* rejects when the login page loads is removed.
C27_StoredAfterSuccess ==
  [][/\ (client'.stored # client.stored /\ client'.stored # NoPassword) =>
          /\ client'.last = Event("handleLogin", client'.stored, "success", "set")
          /\ client.login = client'.stored
          /\ ~rejected(client'.stored)
     /\ (client.login # NoPassword /\ client'.login = NoPassword
           /\ client'.page # "closed"
           /\ client'.last.by = "handleLogin"
           /\ client'.last.answer # "success") =>
          client'.stored = client.stored
     /\ (client'.last # client.last /\ client'.last.by = "verifyPassword"
           /\ client'.last.answer = "401") =>
          client'.stored = NoPassword]_vars

\* a saved password was rejected and removed when the page loaded, a login
\* with a wrong password stored nothing, and a later login stored the password
C27_Witness ==
  /\ client.stored = APP_PASSWORD
  /\ client.byLogin
  /\ client.page = "dashboard"
  /\ client.last = Event("handleLogin", APP_PASSWORD, "success", "set")

\* the texts of the rendered parts, plain pieces and link texts, in order
RenderedText == Flatten([k \in DOMAIN render.parts |-> render.parts[k].text])

\* the positions of the text where a citation of the reference list stands
CitationOccurrences ==
  {i \in 1..Len(render.text) :
     \E k \in DOMAIN render.references :
       CitationPatternAt(render.text, i, render.references[k])}

Links == {k \in DOMAIN render.parts : render.parts[k].kind = "link"}

\* C28: TextWithCitations preserves its text: for every text and every
\* reference list of extractLegalReferences, the rendered parts put together
\* in order are the text, and every occurrence of a citation is one link.
C28_TextPreserved ==
  render.pc = "done" =>
    /\ RenderedText = render.text
    /\ Cardinality(Links) = Cardinality(CitationOccurrences)

====
